---- MODULE Spec2Model ----
(***************************************************************************)
(* A model of the aviation-analytics ingest core: the HTTP client with     *)
(* retries (src/utils/http.py), the three source fetchers with their       *)
(* synthetic fallbacks (src/ingest/{otp,metar,tsa}.py), the daily          *)
(* aggregation transforms, and the validation checks                       *)
(* (src/validation/checks.py), and the admin page that runs them           *)
(* (app/pages/1_Admin_Ingest.py).                                          *)
(*                                                                         *)
(* Each part of the program has its own specification over the same        *)
(* variables; a specification leaves the variables of the other parts at   *)
(* their initial values.                                                   *)
(*   SpecHttp   calls of _get on a shared or a fresh session               *)
(*   SpecFetch  one call of fetch_otp, fetch_metar or fetch_tsa            *)
(*   SpecSynth  a synthetic generator called in each of two processes      *)
(*   SpecFlights  the steps "OTP pull" and "Daily movements" of a run      *)
(*   SpecWeather  the step "METAR pull" of a run                           *)
(*   SpecChecks   one call of _duplicate_check                            *)
(*   SpecTransform  one call of a daily transform on a raw frame           *)
(*   SpecNulls    one call of _null_check                                  *)
(*   SpecRanges   one call of _value_range_check                           *)
(*   SpecCoverage one call of _coverage_check                              *)
(*   SpecEngine   one call of run_all_checks                               *)
(*   SpecRun      one ingest run, from "OTP pull" to "Write Parquet"       *)
(*   SpecHash     _hash_dataframe of two aggregates                        *)
(*   SpecPage     presses of the buttons of the admin page                 *)
(*   SpecManifest write_manifest and a reader of manifest.json             *)
(*   SpecWindow   window_from_days_back and the window of the page         *)
(*   SpecCode     one call of _icao_to_iata                                *)
(***************************************************************************)
EXTENDS Integers, Sequences, FiniteSets, TLC

VARIABLES
    \* ---- HTTP client (src/utils/http.py) ----
    env,          \* os.environ: the four credential variables
    sessHeaders,  \* headers of the shared requests.Session
    hpc,          \* "idle" | "trying" | "returned" | "raised"
    hcall,        \* arguments of the current _get call
    attemptLog,   \* outcomes of the attempts of the current call, in order
    sent,         \* the request the last attempt put on the wire
    response,     \* what _get returned
    raised,       \* the exception that left _get (<<>> when none)
    \* ---- the Python process ----
    pyhash,       \* per process: hash() of the strings hashed so far
    \* ---- one call of a fetcher (src/ingest/{otp,metar,tsa}.py) ----
    fpc,          \* "idle" | "download" | "done"
    fcall,        \* the fetcher and its arguments
    fAttempts,    \* download attempts made by the call
    fDownload,    \* the answer of the server that ended the download
    fPrimary,     \* what the body of the try block ended with
    fResult,      \* what the fetcher returned
    fRaised,      \* the exception that left the fetcher ("" when none)
    \* ---- a synthetic generator called in each of two processes ----
    spc,          \* per process: "idle" | "done"
    scall,        \* per process: the generator and its arguments
    sout,         \* per process: the frame the generator returned
    \* ---- the aggregation steps of an ingest run (1_Admin_Ingest.py) ----
    stage,        \* "idle" | "Daily movements" | "METAR pull"
    runArgs,      \* airports, window, include_canceled of the run
    otp_raw,      \* what fetch_otp_cached returned
    otp_synthetic,\* whether fetch_otp returned from its except block
    daily_frames, \* build_daily_movements of each airport
    otp_daily,    \* their concatenation
    metar_data,   \* what fetch_metar_cached returned for each airport
    metar_daily_frames, \* daily_metar_features of each airport that gave one
    metar_daily,  \* their concatenation
    warnings,     \* the airports whose features failed
    \* ---- one validation check (src/validation/checks.py) ----
    cpc,          \* "idle" | "returned" | "raised"
    cargs,        \* the frame and the other arguments of the check
    cresult,      \* the CheckResult it returned
    \* ---- one call of a daily transform ----
    tpc,          \* "idle" | "returned" | "raised"
    tcall,        \* the transform and the raw frame it is given
    tout,         \* the frame it returned
    \* ---- one call of run_all_checks ----
    epc,          \* "idle" | "returned" | "raised"
    eargs,        \* datasets and params
    eresults,     \* the list of CheckResults it returned
    eraised,      \* the exception that left it ("" when none)
    \* ---- the rest of an ingest run ----
    steps,        \* the names of the steps started, in order
    tsa_daily,    \* what fetch_tsa_cached returned
    checks,       \* what _run_validations returned
    written,      \* the files written, in order
    runError,     \* the exception the run ended with ("" when none)
    \* ---- the content hashes of two aggregates ----
    xargs,        \* the two aggregates
    xhash,        \* their _hash_dataframe
    \* ---- the admin page across button presses ----
    ingest_data,  \* st.session_state["ingest_data"] (held: whether the key is set)
    cache_data,   \* st.cache_data: the frames of the fetcher calls made so far
    disk,         \* the files under the raw and processed roots, by path
    fetched,      \* the fetcher calls the last press ran (not served from the cache)
    shown,        \* what the last press did and reported
    presses,      \* the number of presses so far
    \* ---- one write of manifest.json and a reader of the file ----
    mpc,          \* "idle" | "open" | "closed" | "failed"
    mpayload,     \* the chunks json.dump is to write
    mfile,        \* manifest.json: whether it exists, and the text in it
    mseen,        \* what the reader found at its last read
    \* ---- one DateWindow ----
    wcall,        \* the constructor call and its inputs
    window,       \* the DateWindow
    \* ---- one call of _icao_to_iata ----
    icode,        \* the argument
    iresult       \* the result, and the result of the call on the result

httpVars == <<env, sessHeaders, hpc, hcall, attemptLog, sent, response, raised>>

procVars == <<pyhash>>

fetchVars == <<fpc, fcall, fAttempts, fDownload, fPrimary, fResult, fRaised>>

synthVars == <<spc, scall, sout>>

stageVars ==
    <<stage, runArgs, otp_raw, otp_synthetic, daily_frames, otp_daily,
      metar_data, metar_daily_frames, metar_daily, warnings>>

checkVars == <<cpc, cargs, cresult>>

transformVars == <<tpc, tcall, tout>>

engineVars == <<epc, eargs, eresults, eraised>>

runVars == <<steps, tsa_daily, checks, written, runError>>

hashVars == <<xargs, xhash>>

laterVars == <<transformVars, engineVars, runVars, hashVars>>

pageVars == <<ingest_data, cache_data, disk, fetched, shown, presses>>

manifestVars == <<mpc, mpayload, mfile, mseen>>

windowVars == <<wcall, window>>

codeVars == <<icode, iresult>>

lastVars == <<pageVars, manifestVars, windowVars, codeVars>>

vars == <<httpVars, procVars, fetchVars, synthVars, stageVars, checkVars, laterVars, lastVars>>

\* What the actions of each part leave alone (pyhash is written by every
\* part that runs a synthetic generator).
notHttp == <<procVars, fetchVars, synthVars, stageVars, checkVars, laterVars, lastVars>>

notFetch == <<httpVars, synthVars, stageVars, checkVars, laterVars, lastVars>>

notSynth == <<httpVars, fetchVars, stageVars, checkVars, laterVars, lastVars>>

notStage == <<httpVars, fetchVars, synthVars, checkVars, laterVars, lastVars>>

notCheck == <<httpVars, procVars, fetchVars, synthVars, stageVars, laterVars, lastVars>>

notTransform ==
    <<httpVars, procVars, fetchVars, synthVars, stageVars, checkVars,
      engineVars, runVars, hashVars, lastVars>>

notEngine ==
    <<httpVars, procVars, fetchVars, synthVars, stageVars, checkVars,
      transformVars, runVars, hashVars, lastVars>>

notRun ==
    <<httpVars, fetchVars, synthVars, checkVars, transformVars, engineVars, hashVars,
      lastVars>>

notHash ==
    <<httpVars, procVars, fetchVars, synthVars, stageVars, checkVars,
      transformVars, engineVars, runVars, lastVars>>

notPage ==
    <<httpVars, fetchVars, synthVars, stageVars, checkVars, laterVars,
      manifestVars, windowVars, codeVars>>

notManifest ==
    <<httpVars, procVars, fetchVars, synthVars, stageVars, checkVars, laterVars,
      pageVars, windowVars, codeVars>>

notWindow ==
    <<httpVars, procVars, fetchVars, synthVars, stageVars, checkVars, laterVars,
      pageVars, manifestVars, codeVars>>

notCode ==
    <<httpVars, procVars, fetchVars, synthVars, stageVars, checkVars, laterVars,
      pageVars, manifestVars, windowVars>>

(***************************************************************************)
(* Python dicts are functions from keys to values.                         *)
(***************************************************************************)
EmptyDict == [k \in {} |-> ""]

DictUpdate(d, e) ==
    [k \in (DOMAIN d) \cup (DOMAIN e) |-> IF k \in DOMAIN e THEN e[k] ELSE d[k]]

DictSetDefault(d, k, v) == IF k \in DOMAIN d THEN d ELSE DictUpdate(d, [x \in {k} |-> v])

Last(s) == s[Len(s)]

(***************************************************************************)
(* HTTP client                                                             *)
(***************************************************************************)
_SUCCESS_CODES == {200, 201, 202, 204}

StopAfterAttempt == 5

\* str.strip() on the values the environment can hold here.
Strip(v) == IF v = " " THEN "" ELSE v

\* The URLs the client is called with: two of the repository and one for
\* each credentialed source that _merge_headers and _resolve_auth name.
DATA_GOV_PING_URL == "https://api.data.gov/ed/collegescorecard/v1/schools.json"
TSA_BASE_URL == "https://www.tsa.gov/sites/default/files/tsa_travel_numbers.csv"
FLIGHTAWARE_URL == "https://aeroapi.FlightAware.com/aeroapi/flights"
OPENSKY_URL == "https://opensky-network.org/api/states/all"

Urls == {DATA_GOV_PING_URL, TSA_BASE_URL, FLIGHTAWARE_URL, OPENSKY_URL}

\* str.lower() on a URL.
LowerUrl(u) ==
    IF u = FLIGHTAWARE_URL THEN "https://aeroapi.flightaware.com/aeroapi/flights" ELSE u

\* `pattern in url` for the patterns and URLs above.
Contains(u, pattern) ==
    \/ pattern = "api.data.gov" /\ u = DATA_GOV_PING_URL
    \/ pattern = "flightaware" /\ u = "https://aeroapi.flightaware.com/aeroapi/flights"
    \/ pattern = "opensky-network.org" /\ u = OPENSKY_URL

\* The environments the client runs in.
Environments ==
    { [DATA_GOV_API_KEY |-> "", FLIGHTAWARE_API_KEY |-> "", OPENSKY_USER |-> "", OPENSKY_PASS |-> ""],
      [DATA_GOV_API_KEY |-> "dgkey", FLIGHTAWARE_API_KEY |-> "fakey", OPENSKY_USER |-> "user", OPENSKY_PASS |-> "pass"],
      [DATA_GOV_API_KEY |-> " ", FLIGHTAWARE_API_KEY |-> "fakey", OPENSKY_USER |-> "user", OPENSKY_PASS |-> ""] }

CallerParams == {[per_page |-> "1"], [api_key |-> "callerkey"]}

CallerHeaders == {EmptyDict, [UserAgent |-> "aviation-analytics/ingest"]}

NoAuth == [user |-> "", password |-> ""]

NoRequest == [url |-> "", params |-> EmptyDict, headers |-> EmptyDict, auth |-> NoAuth]

\* What one GET attempt meets: a network error, or a response with a status.
NetworkError == [exc |-> "ConnectionError", status |-> 0, reason |-> "connection refused"]

HttpResponse(status, reason) == [exc |-> "none", status |-> status, reason |-> reason]

HttpOutcomes ==
    { NetworkError, HttpResponse(200, "OK"),
      HttpResponse(203, "Non-Authoritative Information"),
      HttpResponse(500, "") }

build_session(user_agent) ==
    LET headers == [Accept |-> "application/json, text/csv, */*"]
    IN  IF user_agent # "" THEN DictUpdate(headers, [UserAgent |-> user_agent]) ELSE headers

_merge_params(url, params) ==
    LET api_key == Strip(env.DATA_GOV_API_KEY)
    IN  IF api_key # "" /\ Contains(url, "api.data.gov") /\ "api_key" \notin DOMAIN params
        THEN DictUpdate(params, [api_key |-> api_key])
        ELSE params

_merge_headers(url, headers) ==
    LET flightaware_key == Strip(env.FLIGHTAWARE_API_KEY)
    IN  IF flightaware_key # "" /\ Contains(LowerUrl(url), "flightaware")
        THEN DictSetDefault(headers, "x-apikey", flightaware_key)
        ELSE headers

_resolve_auth(url) ==
    LET user == Strip(env.OPENSKY_USER)
        password == Strip(env.OPENSKY_PASS)
    IN  IF user # "" /\ password # "" /\ Contains(url, "opensky-network.org")
        THEN [user |-> user, password |-> password]
        ELSE NoAuth

\* An exception object: its class, what its message carries, and for a
\* tenacity RetryError the exception of the last attempt it wraps.
Exception(cls, url, status, reason, last) ==
    [cls |-> cls, url |-> url, status |-> status, reason |-> reason, last_attempt |-> last]

\* A slip: the test of requests' own raise_for_status (4xx and 5xx only).
RaiseForStatusHttpErrorsOnly(url, resp) ==
    IF resp.status >= 400
    THEN <<Exception("RuntimeError", url, resp.status,
                     IF resp.reason # "" THEN resp.reason ELSE "Unknown error", <<>>)>>
    ELSE <<>>

\* _raise_for_status: <<>> when the status is accepted, else the RuntimeError.

_raise_for_status(url, resp) ==
    IF resp.status \notin _SUCCESS_CODES
    THEN <<Exception("RuntimeError", url, resp.status,
                     IF resp.reason # "" THEN resp.reason ELSE "Unknown error", <<>>)>>
    ELSE <<>>

\* The exception one attempt of the body of _get ends with (<<>> when it returns).
AttemptException(url, o) ==
    IF o.exc # "none"
    THEN <<Exception(o.exc, url, 0, o.reason, <<>>)>>
    ELSE _raise_for_status(url, o)

\* tenacity.RetryError: built from the last attempt only; str() of it names
\* the Future, not the wrapped exception's message.
RetryError(last) == Exception("RetryError", "", 0, "", last)

HttpInit ==
    /\ env \in Environments
    /\ sessHeaders = build_session("")
    /\ hpc = "idle"
    /\ hcall = [url |-> "", params |-> EmptyDict, headers |-> EmptyDict, session |-> FALSE]
    /\ attemptLog = <<>>
    /\ sent = NoRequest
    /\ response = <<>>
    /\ raised = <<>>

HttpIdle ==
    /\ env = [DATA_GOV_API_KEY |-> "", FLIGHTAWARE_API_KEY |-> "", OPENSKY_USER |-> "", OPENSKY_PASS |-> ""]
    /\ sessHeaders = build_session("")
    /\ hpc = "idle"
    /\ hcall = [url |-> "", params |-> EmptyDict, headers |-> EmptyDict, session |-> FALSE]
    /\ attemptLog = <<>>
    /\ sent = NoRequest
    /\ response = <<>>
    /\ raised = <<>>

\* A caller enters _get (through get_json or get_csv); `session` tells whether
\* it passes the shared session or None.
GetCall(url, params, headers, session) ==
    /\ hpc \in {"idle", "returned", "raised"}
    /\ hpc' = "trying"
    /\ hcall' = [url |-> url, params |-> params, headers |-> headers, session |-> session]
    /\ attemptLog' = <<>>
    /\ sent' = NoRequest
    /\ response' = <<>>
    /\ raised' = <<>>
    /\ UNCHANGED <<env, sessHeaders>>
    /\ UNCHANGED notHttp

\* One attempt of the retry loop around the body of _get.
GetAttempt(o) ==
    /\ hpc = "trying"
    /\ LET http == IF hcall.session THEN sessHeaders ELSE build_session("")
           merged_params == _merge_params(hcall.url, hcall.params)
           merged_headers == _merge_headers(hcall.url, hcall.headers)
           updated == IF DOMAIN merged_headers # {} THEN DictUpdate(http, merged_headers) ELSE http
           auth == _resolve_auth(hcall.url)
           exc == AttemptException(hcall.url, o)
           log == Append(attemptLog, o)
       IN  /\ sessHeaders' = IF hcall.session THEN updated ELSE sessHeaders
           /\ sent' = [url |-> hcall.url, params |-> merged_params, headers |-> updated, auth |-> auth]
           /\ attemptLog' = log
           /\ IF exc = <<>>
              THEN /\ hpc' = "returned"
                   /\ response' = <<o>>
                   /\ raised' = <<>>
              ELSE IF Len(log) >= StopAfterAttempt
              THEN /\ hpc' = "raised"
                   /\ response' = <<>>
                   /\ raised' = <<RetryError(exc)>>
              ELSE /\ hpc' = "trying"
                   /\ UNCHANGED <<response, raised>>
    /\ UNCHANGED <<env, hcall>>
    /\ UNCHANGED notHttp

HttpNext ==
    \/ \E u \in Urls, p \in CallerParams, h \in CallerHeaders, s \in BOOLEAN : GetCall(u, p, h, s)
    \/ \E o \in HttpOutcomes : GetAttempt(o)

(***************************************************************************)
(* Claims about the HTTP client                                            *)
(***************************************************************************)
Accepted(o) == o.exc = "none" /\ o.status \in {200, 201, 202, 204}

\* C3: one call of _get makes at most 5 GET attempts; no attempt follows the
\* first one whose status is 200, 201, 202 or 204, the call returns that
\* attempt's response, and after an attempt that met a network error or any
\* other status the call is still trying (a further attempt is enabled) as
\* long as fewer than 5 attempts have been made; only the fifth failure
\* ends the call with an exception.
C3_AtMostFiveAttempts ==
    LET n == Len(attemptLog)
    IN  /\ n <= 5
        /\ \A i \in 1..(n - 1) : ~Accepted(attemptLog[i])
        /\ hpc = "returned" => n >= 1 /\ Accepted(attemptLog[n]) /\ response = <<attemptLog[n]>>
        /\ hpc = "raised" => n = 5 /\ ~Accepted(attemptLog[n])
        /\ (n \in 1..4 /\ ~Accepted(attemptLog[n])) =>
               hpc = "trying" /\ ENABLED (\E o \in HttpOutcomes : GetAttempt(o))
        /\ (n >= 1 /\ hpc = "trying") => ~Accepted(attemptLog[n])

\* C3 witness: a call that returned on its fifth attempt, after four failures.
C3_Witness ==
    /\ hpc = "returned"
    /\ Len(attemptLog) = 5
    /\ attemptLog[1] = NetworkError
    /\ attemptLog[2].status = 203

\* C4: when all the attempts failed, the exception that leaves _get (and so
\* get_json / get_csv) carries the request URL and the status of the failed
\* response, or the reason of the network failure.
C4_ErrorCarriesUrlAndStatus ==
    hpc = "raised" =>
        LET e == raised[1]
            o == Last(attemptLog)
        IN  /\ e.cls # "RetryError"
            /\ e.url = hcall.url
            /\ IF o.exc = "none" THEN e.status = o.status ELSE e.reason = o.reason

\* C5: every request carries a source credential only when its own URL
\* matches that source's pattern, whatever calls were made before on the
\* same session.
C5_CredentialsOnlyForOwnUrl ==
    Len(attemptLog) >= 1 =>
        /\ ("api_key" \in DOMAIN sent.params /\ sent.params["api_key"] = Strip(env.DATA_GOV_API_KEY))
               => Contains(sent.url, "api.data.gov")
        /\ "x-apikey" \in DOMAIN sent.headers => Contains(LowerUrl(sent.url), "flightaware")
        /\ sent.auth # NoAuth => Contains(sent.url, "opensky-network.org")

(***************************************************************************)
(* Calendar, airports, data frames                                         *)
(*                                                                         *)
(* A date is a day number, a timestamp a number of hours (day * 24 + hour  *)
(* of the day); a text that a server sent for one stands for that number,  *)
(* and BadText for a text that pandas cannot parse.                        *)
(***************************************************************************)
MaxDay == 3

MaxRows == 2

Days == 1..MaxDay

Windows == {w \in Days \X Days : w[1] <= w[2]}

HoursPerDay == 24

BadText == -1

Max(a, b) == IF a >= b THEN a ELSE b

Abs(x) == IF x < 0 THEN -x ELSE x

RECURSIVE Flatten(_)
Flatten(ss) == IF ss = <<>> THEN <<>> ELSE Head(ss) \o Flatten(Tail(ss))

\* All sequences over S of length at most n.
SeqsUpTo(S, n) == UNION {[1..k -> S] : k \in 0..n}

\* date_range(start, end): each date from start through end.
date_range(start, end) ==
    [i \in 1..(IF end >= start THEN end - start + 1 ELSE 0) |-> start + i - 1]

KATL == <<"K", "A", "T", "L">>

KJFK == <<"K", "J", "F", "K">>

ATL == <<"A", "T", "L">>

JFK == <<"J", "F", "K">>

ORD == <<"O", "R", "D">>

ZZZ == <<"Z", "Z", "Z">>

AirportCodes == {KATL, KJFK, ATL}

\* A conversion that drops a leading "K" whatever the length of the code.
IcaoStripsEveryK(airport) ==
    IF Len(airport) > 0 /\ airport[1] = "K" THEN SubSeq(airport, 2, Len(airport)) ELSE airport

_icao_to_iata(airport) ==
    IF Len(airport) = 4 /\ airport[1] = "K" THEN SubSeq(airport, 2, Len(airport)) ELSE airport

\* A pandas DataFrame: the column names in order, and the rows, each a
\* function from column name to cell.
DataFrame(columns, rows) == [columns |-> columns, rows |-> rows]

EmptyFrame == DataFrame(<<>>, <<>>)

IsEmpty(df) == Len(df.rows) = 0 \/ Len(df.columns) = 0

HasColumn(df, c) == \E i \in DOMAIN df.columns : df.columns[i] = c

\* df.columns = columns
SetColumns(df, columns) ==
    DataFrame(columns,
              [i \in DOMAIN df.rows |->
                  [c \in {columns[j] : j \in DOMAIN columns} |->
                      df.rows[i][df.columns[CHOOSE j \in DOMAIN columns : columns[j] = c]]]])

\* df.rename(columns={old: new})
RenameColumn(df, old, new) ==
    SetColumns(df, [j \in DOMAIN df.columns |-> IF df.columns[j] = old THEN new ELSE df.columns[j]])

\* df[[c1, c2, ...]]
Project(df, cols) ==
    DataFrame(cols, [i \in DOMAIN df.rows |-> [c \in {cols[j] : j \in DOMAIN cols} |-> df.rows[i][c]]])

\* The elements of a sequence at which a boolean mask of its length holds.
RECURSIVE Compress(_, _)
Compress(s, mask) ==
    IF s = <<>> THEN <<>>
    ELSE (IF Head(mask) THEN <<Head(s)>> ELSE <<>>) \o Compress(Tail(s), Tail(mask))

\* df.loc[mask] / df[mask]
Filter(df, mask) == DataFrame(df.columns, Compress(df.rows, mask))

\* pd.concat(frames, ignore_index=True)
Concat(frames) ==
    IF frames = <<>> THEN EmptyFrame
    ELSE DataFrame(frames[1].columns, Flatten([i \in DOMAIN frames |-> frames[i].rows]))

(***************************************************************************)
(* The Python process: hash() of a str is keyed per process, so it is      *)
(* fixed within a process and free across processes; numpy's generator is  *)
(* a fixed function of its seed.                                           *)
(***************************************************************************)
Procs == {1, 2}

\* A sample of the values hash(airport) takes.
HashValues == {-5, 0, 7, 26, 65543}

\* 2**32 in the source; scaled to fit the model's integers.
SeedModulus == 65536

\* The hash functions a process can have on the strings `used`, given the
\* hashes it has computed so far.
HashChoices(p, used) ==
    {h \in [used -> HashValues] : \A a \in used \cap DOMAIN pyhash[p] : h[a] = pyhash[p][a]}

Remember(memo, h) == [a \in (DOMAIN memo) \cup (DOMAIN h) |-> IF a \in DOMAIN h THEN h[a] ELSE memo[a]]

\* abs(hash(airport)) % (2**32)
SeedOf(hashValue) == Abs(hashValue) % SeedModulus

\* np.random.default_rng(seed): the i-th draw of the stream (i from 0), as
\* one of three quantiles of whatever distribution it is drawn from.  The
\* stream is the base-3 expansion of the seed, so that every short sequence
\* of quantiles is the stream of some seed.
RECURSIVE Quantile(_, _)
Quantile(seed, i) ==
    IF seed = 0 THEN 0 ELSE IF i = 0 THEN seed % 3 ELSE Quantile(seed \div 3, i - 1)

ProcInit == pyhash = [p \in Procs |-> <<>>]

(***************************************************************************)
(* Synthetic generators                                                    *)
(***************************************************************************)
\* rng.normal(2200000, 250000) at a quantile.
TsaNormal(q) == CASE q = 0 -> 2200000 [] q = 1 -> 2450000 [] OTHER -> 90000

_synthetic_tsa(start, end) ==
    LET dates == date_range(start, end)
        values == [i \in DOMAIN dates |-> Max(100000, TsaNormal(Quantile(42, i - 1)))]
    IN  DataFrame(<<"date", "tsa_travelers">>,
                  [i \in DOMAIN dates |-> [date |-> dates[i], tsa_travelers |-> values[i]]])

\* What the generator draws for one day of one airport: the two normal
\* draws, and for the rows of each direction how the per-row tests
\* rng.random() < cancel_rate and rng.random() < divert_rate came out
\* ("few": about 2.5% cancelled and 0.3% diverted; "all": every row
\* cancelled but one, which is diverted).
OtpDayDraw(q) ==
    CASE q = 0 -> [departures |-> 350, arrivals |-> 340, dep_flags |-> "few", arr_flags |-> "few"]
      [] q = 1 -> [departures |-> 30, arrivals |-> 45, dep_flags |-> "all", arr_flags |-> "few"]
      [] OTHER -> [departures |-> 350, arrivals |-> 20, dep_flags |-> "all", arr_flags |-> "all"]

\* The rows of one direction of one day, as runs of n equal rows
\* (Cancelled, Diverted, n), runs of no row left out.
FlagRuns(flags, n) ==
    LET runs == IF flags = "few"
                THEN << <<0, 0, n - (n \div 40) - (n \div 300)>>, <<1, 0, n \div 40>>, <<0, 1, n \div 300>> >>
                ELSE << <<1, 0, n - 1>>, <<0, 1, 1>> >>
    IN  SelectSeq(runs, LAMBDA r : r[3] > 0)

\* A raw flight row stands for n equal rows of the frame (n = 1 in
\* downloaded data); the order of the rows within a day is not kept.
OtpRow(day, origin, dest, cancelled, diverted, n) ==
    [FlightDate |-> day, Origin |-> origin, Dest |-> dest,
     Cancelled |-> cancelled, Diverted |-> diverted, n |-> n]

OtpColumns == <<"FlightDate", "Origin", "Dest", "Cancelled", "Diverted">>

_synthetic_rows(airports, start, end, h) ==
    LET days == date_range(start, end)
        DayRows(airport, i) ==
            LET draw == OtpDayDraw(Quantile(SeedOf(h[airport]), i - 1))
                departures == Max(draw.departures, 50)
                arrivals == Max(draw.arrivals, 50)
                deps == FlagRuns(draw.dep_flags, departures)
                arrs == FlagRuns(draw.arr_flags, arrivals)
            IN  [k \in DOMAIN deps |->
                    OtpRow(days[i], _icao_to_iata(airport), ZZZ, deps[k][1], deps[k][2], deps[k][3])]
                \o
                [k \in DOMAIN arrs |->
                    OtpRow(days[i], ZZZ, _icao_to_iata(airport), arrs[k][1], arrs[k][2], arrs[k][3])]
        records == Flatten([a \in DOMAIN airports |->
                       Flatten([i \in DOMAIN days |-> DayRows(airports[a], i)])])
    IN  IF records = <<>> THEN EmptyFrame ELSE DataFrame(OtpColumns, records)

\* The six draws of one hourly record at a quantile.
MetarSample(q) ==
    CASE q = 0 -> [wind |-> 8, gust |-> 18, vis |-> 8, ceiling |-> 4000, wx |-> "", cat |-> "VFR"]
      [] q = 1 -> [wind |-> -4, gust |-> 30, vis |-> 0, ceiling |-> 50, wx |-> "TSRA", cat |-> "LIFR"]
      [] OTHER -> [wind |-> 16, gust |-> -2, vis |-> 12, ceiling |-> 5600, wx |-> "RA", cat |-> "MVFR"]

MetarColumns ==
    <<"station_id", "observation_time", "wind_speed_kt", "wind_gust_kt",
      "visibility_statute_mi", "ceiling_ft_agl", "wx_string", "flight_category">>

\* visibility is floored at 0.25: cells of that column are in quarter miles.
_synthetic_metar(airport, start, end, h) ==
    LET start_dt == start * HoursPerDay
        end_dt == end * HoursPerDay
        seed == SeedOf(h[airport])
        n == IF start_dt <= end_dt + HoursPerDay THEN end_dt + HoursPerDay - start_dt + 1 ELSE 0
        Record(k) ==
            LET d == MetarSample(Quantile(seed, k - 1))
            IN  [station_id |-> airport,
                 observation_time |-> start_dt + (k - 1),
                 wind_speed_kt |-> Max(0, d.wind),
                 wind_gust_kt |-> Max(0, d.gust),
                 visibility_statute_mi |-> Max(1, 4 * d.vis),
                 ceiling_ft_agl |-> Max(100, d.ceiling),
                 wx_string |-> d.wx,
                 flight_category |-> d.cat]
    IN  IF n = 0 THEN EmptyFrame ELSE DataFrame(MetarColumns, [k \in 1..n |-> Record(k)])

(***************************************************************************)
(* What the servers can answer                                             *)
(***************************************************************************)
\* The outcome of one download attempt: no answer at all (net), or a status
\* and a body that either parses into a frame or does not.
NoAnswer == [net |-> TRUE, status |-> 0, parsable |-> FALSE, frame |-> EmptyFrame]

Answer(status, parsable, frame) ==
    [net |-> FALSE, status |-> status, parsable |-> parsable, frame |-> frame]

Statuses == {200, 203, 500}

\* The TSA CSV: a header and rows of (date text, count).
TsaHeaders ==
    { <<"Date", "Travelers">>, <<" Date ", "TSA Travel Numbers">>,
      <<"Date", "Throughput">>, <<"Day", "Travelers">> }

TsaCsv(header, dates) ==
    DataFrame(header, [i \in DOMAIN dates |->
                          (header[1] :> dates[i]) @@ (header[2] :> 2100000 + 1000 * i)])

TsaCsvFrames ==
    {TsaCsv(h, dates) : h \in TsaHeaders, dates \in SeqsUpTo(Days \cup {BadText}, MaxRows)}

\* The flight sample (a JSON array of records).
OtpRoutes == {<<ATL, ORD>>, <<ORD, JFK>>}

OtpJsonHeaders == {<<"date", "origin", "destination">>, <<"day", "origin", "destination">>}

OtpJson(header, flights) ==
    IF flights = <<>> THEN EmptyFrame
    ELSE DataFrame(header, [i \in DOMAIN flights |->
                      (header[1] :> flights[i][1]) @@
                      [origin |-> flights[i][2][1], destination |-> flights[i][2][2]]])

OtpJsonFrames ==
    {OtpJson(h, flights) : h \in OtpJsonHeaders,
                           flights \in SeqsUpTo((Days \cup {BadText}) \X OtpRoutes, MaxRows)}

\* The METAR CSV for a station: observations at noon of some days, with or
\* without the station and the time columns.
MetarHeaders ==
    { <<"station_id", "observation_time", "wind_speed_kt", "wx_string">>,
      <<"Station", "observation_time", "wind_speed_kt", "wx_string">>,
      <<"observation_time", "wind_speed_kt", "wx_string">>,
      <<"station_id", "valid", "wind_speed_kt", "wx_string">>,
      <<"station_id", "time", "wind_speed_kt", "wx_string">> }

MetarCsv(header, airport, days) ==
    DataFrame(header, [i \in DOMAIN days |->
        [c \in {header[j] : j \in DOMAIN header} |->
            CASE c \in {"station_id", "Station"} -> airport
              [] c \in {"observation_time", "valid", "time"} -> days[i] * HoursPerDay + 12
              [] c = "wind_speed_kt" -> 5 + i
              [] OTHER -> IF i = 1 THEN "RA" ELSE ""]])

MetarCsvFrames(airport) ==
    {MetarCsv(h, airport, days) : h \in MetarHeaders, days \in SeqsUpTo(Days, MaxRows)}

(***************************************************************************)
(* The fetchers                                                            *)
(***************************************************************************)
\* How a block of code ends: with a frame, or with an exception of a class.
Ok(frame) == [exc |-> "", frame |-> frame]

Raise(cls) == [exc |-> cls, frame |-> EmptyFrame]

\* The classes of the exceptions the primary paths raise; each of them is
\* a subclass of Exception.
ExceptionClasses ==
    {"ConnectionError", "HTTPError", "RuntimeError", "ParserError", "KeyError",
     "ValueError", "RetryError"}

\* A slip: an except clause for the errors of the transport only.
ExceptRequestErrors(cls) == cls \in {"ConnectionError", "HTTPError", "RetryError"}

\* except Exception:
ExceptException(cls) == cls \in ExceptionClasses

\* A slip: no test of the filtered frame.
NeverRaisesOnEmpty(frame) == FALSE

\* if filtered.empty: raise ValueError(...)
RaisesOnEmpty(frame) == IsEmpty(frame)

OtpStopAfterAttempt == 3

TsaStopAfterAttempt == 3

\* One run of the decorated function: what it ends with, and whether
\* tenacity sees the exception (it is raised inside the decorated function).
Attempt(result, retried) == [result |-> result, retried |-> retried]

\* columns.str.strip().str.lower()
StripLower(c) ==
    CASE c \in {"Date", " Date "} -> "date"
      [] c = "Travelers" -> "travelers"
      [] c = "TSA Travel Numbers" -> "tsa travel numbers"
      [] c = "Throughput" -> "throughput"
      [] c = "Day" -> "day"
      [] OTHER -> c

InWindow(day, start, end) == day >= start /\ day <= end

\* ---- tsa.py ----
_download_csv(o) ==
    IF o.net THEN Raise("ConnectionError")
    ELSE IF o.status >= 400 THEN Raise("HTTPError")
    ELSE IF ~o.parsable THEN Raise("ParserError")
    ELSE Ok(o.frame)

\* The body of the try block of fetch_tsa after the download.
TsaTry(downloaded, start, end) ==
    LET df == SetColumns(downloaded, [j \in DOMAIN downloaded.columns |-> StripLower(downloaded.columns[j])])
        renamed == IF HasColumn(df, "travelers")
                   THEN RenameColumn(df, "travelers", "tsa_travelers")
                   ELSE IF HasColumn(df, "tsa travel numbers")
                   THEN RenameColumn(df, "tsa travel numbers", "tsa_travelers")
                   ELSE df
    IN  IF ~HasColumn(df, "date") THEN Raise("ValueError")
        ELSE IF \E i \in DOMAIN renamed.rows : renamed.rows[i].date = BadText THEN Raise("ParserError")
        ELSE IF ~HasColumn(renamed, "tsa_travelers") THEN Raise("KeyError")
        ELSE LET selected == Project(renamed, <<"date", "tsa_travelers">>)
                 mask == [i \in DOMAIN selected.rows |-> InWindow(selected.rows[i].date, start, end)]
                 filtered == Filter(selected, mask)
             IN  IF RaisesOnEmpty(filtered) THEN Raise("ValueError") ELSE Ok(filtered)

\* ---- otp.py ----
_download_sample(o) ==
    IF o.net THEN Raise("ConnectionError")
    ELSE IF o.status >= 400 THEN Raise("HTTPError")
    ELSE IF ~o.parsable THEN Raise("ValueError")
    ELSE IF ~HasColumn(o.frame, "date") THEN Raise("KeyError")
    ELSE IF \E i \in DOMAIN o.frame.rows : o.frame.rows[i].date = BadText THEN Raise("ParserError")
    ELSE Ok(DataFrame(OtpColumns,
                      [i \in DOMAIN o.frame.rows |->
                          OtpRow(o.frame.rows[i].date, o.frame.rows[i].origin,
                                 o.frame.rows[i].destination, 0, 0, 1)]))

\* The body of the try block of fetch_otp after the download.
OtpTry(df, airports, start, end) ==
    LET iatas == {_icao_to_iata(airports[a]) : a \in DOMAIN airports}
        mask == [i \in DOMAIN df.rows |-> df.rows[i].Origin \in iatas \/ df.rows[i].Dest \in iatas]
        masked == Filter(df, mask)
        filtered == Filter(masked, [i \in DOMAIN masked.rows |->
                                       InWindow(masked.rows[i].FlightDate, start, end)])
    IN  IF RaisesOnEmpty(filtered) THEN Raise("ValueError") ELSE Ok(filtered)

\* ---- metar.py ----
\* One attempt of _get, as get_csv sees it.
MetarGet(o) ==
    IF o.net THEN Raise("ConnectionError")
    ELSE IF o.status \notin _SUCCESS_CODES THEN Raise("RuntimeError")
    ELSE Ok(EmptyFrame)

\* pd.read_csv(StringIO(response.text)) and the rest of _download_metar.
_download_metar(o) ==
    IF ~o.parsable THEN Raise("ParserError")
    ELSE IF RaisesOnEmpty(o.frame) THEN Raise("ValueError")
    ELSE Ok(o.frame)

\* A slip: the limit of _get for every download.
StopAfterOfGet(f) == StopAfterAttempt

StopAfter(f) ==
    CASE f = "tsa" -> TsaStopAfterAttempt
      [] f = "otp" -> OtpStopAfterAttempt
      [] OTHER -> StopAfterAttempt

\* One attempt of the download of fetcher f on the answer o.
AttemptOf(f, o) ==
    CASE f = "tsa" -> Attempt(_download_csv(o), _download_csv(o).exc # "")
      [] f = "otp" -> Attempt(_download_sample(o), _download_sample(o).exc # "")
      [] OTHER -> IF MetarGet(o).exc # "" THEN Attempt(MetarGet(o), TRUE)
                  ELSE Attempt(_download_metar(o), FALSE)

\* The rest of the try block, on the frame the download returned.
TryBody(call, downloaded) ==
    CASE call.f = "tsa" -> TsaTry(downloaded, call.start, call.end)
      [] call.f = "otp" -> OtpTry(downloaded, call.airports, call.start, call.end)
      [] OTHER -> Ok(downloaded)

\* The strings the synthetic generator of the call hashes.
Hashed(call) ==
    IF call.f = "tsa" THEN {} ELSE {call.airports[a] : a \in DOMAIN call.airports}

\* The except block: the synthetic generator on the arguments of the call.
Synthetic(call, h) ==
    CASE call.f = "tsa" -> _synthetic_tsa(call.start, call.end)
      [] call.f = "otp" -> _synthetic_rows(call.airports, call.start, call.end, h)
      [] OTHER -> _synthetic_metar(call.airports[1], call.start, call.end, h)

\* What the try block of the fetcher ends with when the download ends with
\* the answer o (at the last attempt, when o makes the attempt fail).
PrimaryPath(call, o) ==
    LET a == AttemptOf(call.f, o)
        downloaded == IF a.result.exc # "" /\ a.retried THEN Raise("RetryError") ELSE a.result
    IN  IF downloaded.exc # "" THEN downloaded ELSE TryBody(call, downloaded.frame)

AirportLists == {<<>>, <<KATL>>, <<ATL>>, <<KATL, KJFK>>}

FetchCalls ==
    {[f |-> "tsa", airports |-> <<>>, start |-> w[1], end |-> w[2]] : w \in Windows}
    \cup {[f |-> "otp", airports |-> l, start |-> w[1], end |-> w[2]] :
             l \in AirportLists, w \in Windows}
    \cup {[f |-> "metar", airports |-> <<a>>, start |-> w[1], end |-> w[2]] :
             a \in AirportCodes, w \in Windows}

ServerFrames(call) ==
    CASE call.f = "tsa" -> TsaCsvFrames
      [] call.f = "otp" -> OtpJsonFrames
      [] call.f = "metar" -> MetarCsvFrames(call.airports[1])
      [] OTHER -> {}

ServerAnswers(call) ==
    {NoAnswer, Answer(500, FALSE, EmptyFrame), Answer(200, FALSE, EmptyFrame)}
    \cup {Answer(status, TRUE, frame) : status \in {200, 203}, frame \in ServerFrames(call)}

FetchIdle ==
    /\ fpc = "idle"
    /\ fcall = [f |-> "", airports |-> <<>>, start |-> 0, end |-> 0]
    /\ fAttempts = 0
    /\ fDownload = NoAnswer
    /\ fPrimary = Ok(EmptyFrame)
    /\ fResult = EmptyFrame
    /\ fRaised = ""

\* fetch_tsa(start, end) / fetch_otp(airports, start, end) /
\* fetch_metar(airport, start, end, user_agent) is called.
FetchCall(call) ==
    /\ fpc = "idle"
    /\ fpc' = "download"
    /\ fcall' = call
    /\ UNCHANGED <<fAttempts, fDownload, fPrimary, fResult, fRaised, pyhash>>
    /\ UNCHANGED notFetch

\* The server answers o to the next attempt of the download.  A failure
\* inside the retried function is retried until the limit, where tenacity
\* raises RetryError; otherwise the try block runs to its end and the
\* fetcher returns, from the try block or from the except block.
FetchAttempt(o) ==
    /\ fpc = "download"
    /\ LET a == AttemptOf(fcall.f, o)
           n == fAttempts + 1
       IN  /\ fAttempts' = n
           /\ IF a.result.exc # "" /\ a.retried /\ n < StopAfter(fcall.f)
              THEN UNCHANGED <<fpc, fDownload, fPrimary, fResult, fRaised, pyhash>>
              ELSE LET primary == PrimaryPath(fcall, o)
                   IN  /\ fpc' = "done"
                       /\ fDownload' = o
                       /\ fPrimary' = primary
                       /\ IF primary.exc = ""
                          THEN fResult' = primary.frame /\ UNCHANGED <<fRaised, pyhash>>
                          ELSE IF ExceptException(primary.exc)
                          THEN \E h \in HashChoices(1, Hashed(fcall)) :
                                  /\ fResult' = Synthetic(fcall, h)
                                  /\ pyhash' = [pyhash EXCEPT ![1] = Remember(@, h)]
                                  /\ UNCHANGED fRaised
                          ELSE fRaised' = primary.exc /\ UNCHANGED <<fResult, pyhash>>
    /\ UNCHANGED fcall
    /\ UNCHANGED notFetch

FetchNext ==
    \/ \E call \in FetchCalls : FetchCall(call)
    \/ fpc = "download" /\ \E o \in ServerAnswers(fcall) : FetchAttempt(o)

\* What a fetcher can return to a caller in process p: the frame, whether
\* it comes from the except block, and the hashes that block computed.
Returns(call, p) ==
    {[synthetic |-> FALSE, h |-> EmptyDict, frame |-> PrimaryPath(call, o).frame] :
        o \in {x \in ServerAnswers(call) : PrimaryPath(call, x).exc = ""}}
    \cup
    {[synthetic |-> TRUE, h |-> h, frame |-> Synthetic(call, h)] :
        h \in IF \E o \in ServerAnswers(call) : ExceptException(PrimaryPath(call, o).exc)
              THEN HashChoices(p, Hashed(call)) ELSE {}}

(***************************************************************************)
(* Claims about the fetchers                                               *)
(***************************************************************************)
\* C1: whatever the primary path did (no answer on every attempt, a status
\* that is not accepted, a body that does not parse, a missing column, no
\* row for the request), a fetcher that has ended has returned a frame: no
\* exception has left it.
C1_FetchNeverRaises == fpc = "done" => fRaised = ""

\* fetch_tsa on a CSV whose count column has another name: the KeyError of
\* the column selection is caught and the synthetic frame is returned.
C1_Witness ==
    /\ fpc = "done"
    /\ fcall.f = "tsa"
    /\ fPrimary.exc = "KeyError"
    /\ fAttempts = 1
    /\ Len(fResult.rows) = fcall.end - fcall.start + 1

\* The rows of the downloaded frame that are for the request: for the
\* throughput CSV those dated in the window, for the flight sample those
\* dated in the window that leave from or arrive at a requested airport,
\* for METAR (the request names the station and the window) every row.
RequestedRows(call, o) ==
    LET rows == o.frame.rows
        iatas == {_icao_to_iata(call.airports[a]) : a \in DOMAIN call.airports}
        Wanted(r) ==
            CASE call.f = "tsa" -> InWindow(r[o.frame.columns[1]], call.start, call.end)
              [] call.f = "otp" ->
                    /\ InWindow(r[o.frame.columns[1]], call.start, call.end)
                    /\ (r.origin \in iatas \/ r.destination \in iatas)
              [] OTHER -> TRUE
    IN  SelectSeq(rows, Wanted)

C10_OneRowPerDate ==
    (fpc = "done" /\ fcall.f = "tsa") =>
        /\ \A i \in DOMAIN fResult.rows : InWindow(fResult.rows[i].date, fcall.start, fcall.end)
        /\ \A i, j \in DOMAIN fResult.rows : fResult.rows[i].date = fResult.rows[j].date => i = j
        /\ fPrimary.exc # "" =>
              [i \in DOMAIN fResult.rows |-> fResult.rows[i].date] = date_range(fcall.start, fcall.end)

(***************************************************************************)
(* The daily transforms                                                    *)
(***************************************************************************)
\* The str "" (codes are tuples of characters).
EmptyStr == <<>>

\* np.nan in a numeric column.
NaN == -2

RECURSIVE SortedDays(_)
SortedDays(S) ==
    IF S = {} THEN <<>>
    ELSE LET m == CHOOSE x \in S : \A y \in S : x <= y
         IN  <<m>> \o SortedDays(S \ {m})

\* The codes in the order of str.
StationOrder == <<EmptyStr, ATL, KATL, KJFK>>

StationRank(a) == CHOOSE i \in DOMAIN StationOrder : StationOrder[i] = a

KeyBefore(a, b) == a[1] < b[1] \/ (a[1] = b[1] /\ StationRank(a[2]) <= StationRank(b[2]))

\* The keys (date, airport) of a groupby, sorted: the j-th is the one that
\* j of them (itself included) do not follow.
SortedKeys(S) ==
    [j \in 1..Cardinality(S) |->
        CHOOSE x \in S : Cardinality({y \in S : KeyBefore(y, x)}) = j]

Range(s) == {s[i] : i \in DOMAIN s}

\* groupby(...).size() of raw flight rows: a row stands for n rows.
RECURSIVE Size(_)
Size(rows) == IF rows = <<>> THEN 0 ELSE Head(rows).n + Size(Tail(rows))

RECURSIVE Sum(_)
Sum(values) == IF values = <<>> THEN 0 ELSE Head(values) + Sum(Tail(values))

MovementColumns == <<"date", "airport", "dep_count", "arr_count", "movements">>

\* A slip: the mask without the Diverted test.
KeepsUncancelled(r, include_canceled) == include_canceled \/ r.Cancelled = 0

\* if not include_canceled: df = df[(df["Cancelled"] == 0) & (df["Diverted"] == 0)]
KeepsFlight(r, include_canceled) == include_canceled \/ (r.Cancelled = 0 /\ r.Diverted = 0)

\* The index of pd.concat([dep_counts, arr_counts], axis=1): the dates of
\* the first series, then those only in the second.
build_daily_movements(df, airport, include_canceled) ==
    IF IsEmpty(df) THEN DataFrame(MovementColumns, <<>>)
    ELSE
      LET iata == _icao_to_iata(airport)
          kept == Filter(df, [i \in DOMAIN df.rows |-> KeepsFlight(df.rows[i], include_canceled)])
          deps == Filter(kept, [i \in DOMAIN kept.rows |-> kept.rows[i].Origin = iata]).rows
          arrs == Filter(kept, [i \in DOMAIN kept.rows |-> kept.rows[i].Dest = iata]).rows
          dep_dates == SortedDays({deps[i].FlightDate : i \in DOMAIN deps})
          arr_dates == SortedDays({arrs[i].FlightDate : i \in DOMAIN arrs})
          index == dep_dates \o SelectSeq(arr_dates, LAMBDA d : d \notin Range(dep_dates))
          dep_count(d) == Size(SelectSeq(deps, LAMBDA r : r.FlightDate = d))
          arr_count(d) == Size(SelectSeq(arrs, LAMBDA r : r.FlightDate = d))
      IN  DataFrame(MovementColumns,
                    [k \in DOMAIN index |->
                        [date |-> index[k], airport |-> airport,
                         dep_count |-> dep_count(index[k]),
                         arr_count |-> arr_count(index[k]),
                         movements |-> dep_count(index[k]) + arr_count(index[k])]])

\* str.lower() of a column name.
Lower(c) == IF c = "Station" THEN "station" ELSE c

\* The columns _normalize_metar adds when they are missing, in the order
\* of its tests, each with the column its values are copied from when the
\* frame has it and the value it gets otherwise.
MetarDefaults ==
    << [column |-> "wind_speed_kt", from |-> "wind_speed", default |-> 0],
       [column |-> "wind_gust_kt", from |-> "wind_gust", default |-> 0],
       [column |-> "visibility_statute_mi", from |-> "visibility", default |-> 0],
       [column |-> "ceiling_ft_agl", from |-> "ceiling", default |-> NaN],
       [column |-> "wx_string", from |-> "wx_string", default |-> ""],
       [column |-> "flight_category", from |-> "flight_category", default |-> ""] >>

\* station_id is added only from a station column.
_normalize_metar(df) ==
    LET lowered == SetColumns(df, [j \in DOMAIN df.columns |-> Lower(df.columns[j])])
        has == Range(lowered.columns)
        defaults == SelectSeq(MetarDefaults, LAMBDA d : d.column \notin has)
        station == IF "station_id" \notin has /\ "station" \in has
                   THEN << [column |-> "station_id", from |-> "station", default |-> EmptyStr] >>
                   ELSE <<>>
        added == defaults \o station
    IN  DataFrame(lowered.columns \o [k \in DOMAIN added |-> added[k].column],
                  [i \in DOMAIN lowered.rows |->
                      [c \in has \cup {added[k].column : k \in DOMAIN added} |->
                          IF c \in has THEN lowered.rows[i][c]
                          ELSE LET d == added[CHOOSE k \in DOMAIN added : added[k].column = c]
                               IN  IF d.from \in has THEN lowered.rows[i][d.from] ELSE d.default]])

\* The aggregates of one group; min and max skip NaN.
Numbers(values) == SelectSeq(values, LAMBDA v : v # NaN)

MinOf(values) ==
    LET ns == Range(Numbers(values))
    IN  IF ns = {} THEN NaN ELSE CHOOSE m \in ns : \A v \in ns : m <= v

MaxOf(values) ==
    LET ns == Range(Numbers(values))
    IN  IF ns = {} THEN NaN ELSE CHOOSE m \in ns : \A v \in ns : m >= v

\* The mean, as a fraction.
MeanOf(values) == LET ns == Numbers(values) IN [num |-> Sum(ns), den |-> Len(ns)]

\* s.str.contains("RA|SN|DZ", case=False) and s.str.contains("TS", case=False)
\* on the weather strings of the data.
HasPrecip(wx) == wx \in {"RA", "TSRA"}

HasThunder(wx) == wx \in {"TSRA"}

\* A slip: the columns of the empty features frame without ifr_any.
FeatureColumnsShort ==
    <<"date", "airport", "wind_mean", "gust_max", "vis_min", "ceiling_min",
      "precip_any", "ts_any">>

FeatureColumns ==
    <<"date", "airport", "wind_mean", "gust_max", "vis_min", "ceiling_min",
      "precip_any", "ts_any", "ifr_any">>

\* The rows of the normalized frame with df["date"] and df["airport"].
KeyedRows(df) ==
    [i \in DOMAIN df.rows |->
        [date |-> df.rows[i].observation_time \div HoursPerDay,
         airport |-> IF HasColumn(df, "station_id") THEN df.rows[i].station_id ELSE EmptyStr,
         wind_speed_kt |-> df.rows[i].wind_speed_kt,
         wind_gust_kt |-> df.rows[i].wind_gust_kt,
         visibility_statute_mi |-> df.rows[i].visibility_statute_mi,
         ceiling_ft_agl |-> df.rows[i].ceiling_ft_agl,
         wx_string |-> df.rows[i].wx_string,
         flight_category |-> df.rows[i].flight_category]] \o <<>>

\* The aggregates of the rows g of the group of key k.
GroupFeatures(g, k) ==
    [date |-> k[1], airport |-> k[2],
     wind_mean |-> MeanOf([i \in DOMAIN g |-> g[i].wind_speed_kt]),
     gust_max |-> MaxOf([i \in DOMAIN g |-> g[i].wind_gust_kt]),
     vis_min |-> MinOf([i \in DOMAIN g |-> g[i].visibility_statute_mi]),
     ceiling_min |-> MinOf([i \in DOMAIN g |-> g[i].ceiling_ft_agl]),
     precip_any |-> IF \E i \in DOMAIN g : HasPrecip(g[i].wx_string) THEN 1 ELSE 0,
     ts_any |-> IF \E i \in DOMAIN g : HasThunder(g[i].wx_string) THEN 1 ELSE 0,
     ifr_any |-> IF \E i \in DOMAIN g : g[i].flight_category \in {"IFR", "LIFR"} THEN 1 ELSE 0]

\* groupby(["date", "airport"]) of the keyed rows and the aggregates of
\* each group, in the order of the keys.  (A set of one element names a
\* value that is used several times.)
FeatureRows(rows) ==
    CHOOSE out \in
        {[j \in DOMAIN keys |->
             CHOOSE f \in {GroupFeatures(g, keys[j]) :
                             g \in {SelectSeq(rows, LAMBDA r : <<r.date, r.airport>> = keys[j])}} :
                 TRUE] :
            keys \in {SortedKeys({<<rows[i].date, rows[i].airport>> : i \in DOMAIN rows})}} : TRUE

daily_metar_features(metar_df) ==
    IF IsEmpty(metar_df) THEN Ok(DataFrame(FeatureColumns, <<>>))
    ELSE IF ~HasColumn(_normalize_metar(metar_df), "observation_time") THEN Raise("ValueError")
    ELSE Ok(DataFrame(FeatureColumns,
                      CHOOSE out \in {FeatureRows(rows) :
                                        rows \in {KeyedRows(df) : df \in {_normalize_metar(metar_df)}}} :
                          TRUE))

(***************************************************************************)
(* The aggregation steps of an ingest run                                  *)
(***************************************************************************)
\* The airports of the multiselect, in the order selected.
RunAirportLists == {<<KJFK>>, <<KJFK, ATL>>}

RunConfigs ==
    {[airports |-> l, start |-> w[1], end |-> w[2], include_canceled |-> b] :
        l \in RunAirportLists, w \in Windows, b \in BOOLEAN}

\* sorted(airports)
Sorted(airports) ==
    LET ks == SortedKeys({<<0, airports[i]>> : i \in DOMAIN airports})
    IN  [i \in DOMAIN ks |-> ks[i][2]]

\* fetch_otp_cached(tuple(sorted(airports)), start_iso, end_iso)
OtpCall(args) ==
    [f |-> "otp", airports |-> Sorted(args.airports), start |-> args.start, end |-> args.end]

\* fetch_metar_cached(airport, start_iso, end_iso, user_agent)
MetarCall(airport, args) ==
    [f |-> "metar", airports |-> <<airport>>, start |-> args.start, end |-> args.end]

\* What the fetches of the airports, in order, can return.
RECURSIVE MetarReturns(_, _)
MetarReturns(airports, args) ==
    IF airports = <<>> THEN {<<>>}
    ELSE {<<r>> \o rest : r \in Returns(MetarCall(Head(airports), args), 1),
                          rest \in MetarReturns(Tail(airports), args)}

StageIdle ==
    /\ stage = "idle"
    /\ runArgs = [airports |-> <<>>, start |-> 0, end |-> 0, include_canceled |-> FALSE]
    /\ otp_raw = EmptyFrame
    /\ otp_synthetic = FALSE
    /\ daily_frames = <<>>
    /\ otp_daily = EmptyFrame
    /\ metar_data = <<>>
    /\ metar_daily_frames = <<>>
    /\ metar_daily = EmptyFrame
    /\ warnings = <<>>

\* The steps "OTP pull" and "Daily movements" of a run: fetch_otp returns r.
DailyMovementsStep(args, r) ==
    /\ stage = "idle"
    /\ stage' = "Daily movements"
    /\ runArgs' = args
    /\ otp_raw' = r.frame
    /\ otp_synthetic' = r.synthetic
    /\ pyhash' = [pyhash EXCEPT ![1] = Remember(@, r.h)]
    /\ LET frames == [k \in DOMAIN args.airports |->
                         build_daily_movements(r.frame, args.airports[k], args.include_canceled)]
       IN  /\ daily_frames' = frames
           /\ otp_daily' = Concat(frames)
    /\ UNCHANGED <<metar_data, metar_daily_frames, metar_daily, warnings>>
    /\ UNCHANGED notStage

\* The step "METAR pull" of a run: fetch_metar returns rs[k] for the k-th
\* airport; the features of a frame that raises are left out with a warning.
MetarPullStep(args, rs) ==
    /\ stage = "idle"
    /\ stage' = "METAR pull"
    /\ runArgs' = args
    /\ LET data == [k \in DOMAIN args.airports |->
                       [airport |-> args.airports[k], df |-> rs[k].frame]]
           features == [k \in DOMAIN data |-> daily_metar_features(data[k].df)]
           raises == [k \in DOMAIN data |-> features[k].exc # ""]
           frames == Compress([k \in DOMAIN data |-> features[k].frame],
                              [k \in DOMAIN data |-> ~raises[k]])
           hashed == UNION {DOMAIN rs[k].h : k \in DOMAIN rs}
           h == [a \in hashed |-> rs[CHOOSE k \in DOMAIN rs : a \in DOMAIN rs[k].h].h[a]]
       IN  /\ metar_data' = data
           /\ metar_daily_frames' = frames
           /\ metar_daily' = Concat(frames)
           /\ warnings' = Compress(args.airports, raises)
           /\ pyhash' = [pyhash EXCEPT ![1] = Remember(@, h)]
    /\ UNCHANGED <<otp_raw, otp_synthetic, daily_frames, otp_daily>>
    /\ UNCHANGED notStage

FlightsNext ==
    /\ stage = "idle"
    /\ \E args \in RunConfigs : \E r \in Returns(OtpCall(args), 1) : DailyMovementsStep(args, r)

\* include_canceled plays no part in this step.
WeatherNext ==
    /\ stage = "idle"
    /\ \E args \in {c \in RunConfigs : ~c.include_canceled} :
          \E rs \in MetarReturns(args.airports, args) : MetarPullStep(args, rs)

(***************************************************************************)
(* Claims about the aggregation steps                                      *)
(***************************************************************************)
\* The dates on which the raw flight data has a flight from or to the
\* airport that is neither cancelled nor diverted.
OperatedDates(raw, airport) ==
    {raw.rows[i].FlightDate : i \in
        {j \in DOMAIN raw.rows :
            /\ raw.rows[j].Origin = _icao_to_iata(airport) \/ raw.rows[j].Dest = _icao_to_iata(airport)
            /\ raw.rows[j].Cancelled = 0
            /\ raw.rows[j].Diverted = 0}}

WindowDates == Range(date_range(runArgs.start, runArgs.end))

SumsAreRight(daily) ==
    \A i \in DOMAIN daily.rows :
        /\ daily.rows[i].movements = daily.rows[i].dep_count + daily.rows[i].arr_count
        /\ daily.rows[i].dep_count >= 0
        /\ daily.rows[i].arr_count >= 0
        /\ daily.rows[i].movements >= 0

\* C7 as stated: on synthetic flight data with include_canceled false, the
\* daily movements of each airport have exactly N rows, one for each date
\* of the window, with movements = dep_count + arr_count and no negative
\* value, whatever the cancelled and diverted flags are.
C7_ExactlyOneRowPerDate ==
    (stage = "Daily movements" /\ otp_synthetic /\ ~runArgs.include_canceled) =>
        \A k \in DOMAIN daily_frames :
            /\ Len(daily_frames[k].rows) = runArgs.end - runArgs.start + 1
            /\ {daily_frames[k].rows[i].date : i \in DOMAIN daily_frames[k].rows} = WindowDates
            /\ SumsAreRight(daily_frames[k])

\* C7 amended: on synthetic flight data with include_canceled false, the
\* daily movements of each airport have exactly one row for each date of
\* the window on which a flight of the airport is neither cancelled nor
\* diverted (N rows when every date has one) and no other row, with
\* movements = dep_count + arr_count and no negative value.
C7_OneRowPerOperatedDate ==
    (stage = "Daily movements" /\ otp_synthetic /\ ~runArgs.include_canceled) =>
        \A k \in DOMAIN daily_frames :
            LET operated == OperatedDates(otp_raw, runArgs.airports[k])
                dates == {daily_frames[k].rows[i].date : i \in DOMAIN daily_frames[k].rows}
            IN  /\ operated \subseteq WindowDates
                /\ dates = operated
                /\ Len(daily_frames[k].rows) = Cardinality(operated)
                /\ operated = WindowDates =>
                      Len(daily_frames[k].rows) = runArgs.end - runArgs.start + 1
                /\ SumsAreRight(daily_frames[k])

\* A window of three days of which the generator left one without a flight
\* that is neither cancelled nor diverted: two rows.
C7_Witness ==
    /\ stage = "Daily movements"
    /\ otp_synthetic
    /\ ~runArgs.include_canceled
    /\ runArgs.end - runArgs.start + 1 = 3
    /\ Len(daily_frames[1].rows) = 2
    /\ \E i \in DOMAIN daily_frames[1].rows : daily_frames[1].rows[i].dep_count = 0

NoDuplicateKeys(df) ==
    \A i, j \in DOMAIN df.rows :
        (df.rows[i].date = df.rows[j].date /\ df.rows[i].airport = df.rows[j].airport) => i = j

\* C8: the frame daily_metar_features gives for each airport, and the
\* concatenation of these frames for the distinct airports of a run, have
\* no two rows with the same (date, airport).
C8_NoDuplicateDateAirport ==
    stage = "METAR pull" =>
        /\ \A k \in DOMAIN metar_daily_frames : NoDuplicateKeys(metar_daily_frames[k])
        /\ NoDuplicateKeys(metar_daily)

(***************************************************************************)
(* The synthetic generators in two processes                               *)
(***************************************************************************)
\* The calls of the generators: _synthetic_tsa(start, end),
\* _synthetic_rows([airport], start, end), _synthetic_metar(airport, start, end).
SyntheticCalls ==
    {[f |-> "tsa", airports |-> <<>>, start |-> w[1], end |-> w[2]] : w \in Windows}
    \cup {[f |-> g, airports |-> <<a>>, start |-> w[1], end |-> w[2]] :
             g \in {"otp", "metar"}, a \in AirportCodes, w \in Windows}

SynthIdle ==
    /\ spc = [p \in Procs |-> "idle"]
    /\ scall = [p \in Procs |-> [f |-> "", airports |-> <<>>, start |-> 0, end |-> 0]]
    /\ sout = [p \in Procs |-> EmptyFrame]

\* Process p runs a generator; hash() of a string it has not hashed before
\* takes any value.
SynthRun(p, call) ==
    /\ spc[p] = "idle"
    /\ \E h \in HashChoices(p, Hashed(call)) :
          /\ sout' = [sout EXCEPT ![p] = Synthetic(call, h)]
          /\ pyhash' = [pyhash EXCEPT ![p] = Remember(@, h)]
    /\ spc' = [spc EXCEPT ![p] = "done"]
    /\ scall' = [scall EXCEPT ![p] = call]
    /\ UNCHANGED notSynth

SynthNext == \E p \in Procs, call \in SyntheticCalls : SynthRun(p, call)

(***************************************************************************)
(* Claims about the synthetic generators                                   *)
(***************************************************************************)
\* C6: two processes that have called the same generator with the same
\* entity and the same window have got the same frame.
C6_SameAcrossProcesses ==
    \A p, q \in Procs :
        (spc[p] = "done" /\ spc[q] = "done" /\ scall[p] = scall[q]) => sout[p] = sout[q]

(***************************************************************************)
(* The validation checks                                                   *)
(***************************************************************************)
MaxCheckRows == 3

\* A CheckResult.
CheckResult(name, status, message, value, expected) ==
    [name |-> name, status |-> status, message |-> message, value |-> value,
     expected |-> expected]

\* Daily frames to check: rows keyed by a date (NaN for a missing one) and,
\* in the frames that have the column, an airport.
CheckColumns == {<<"date", "airport", "value">>, <<"date", "value">>}

CheckFrame(columns, keys) ==
    DataFrame(columns,
              [i \in DOMAIN keys |->
                  [c \in Range(columns) |->
                      CASE c = "date" -> keys[i][1]
                        [] c = "airport" -> keys[i][2]
                        [] OTHER -> 10 * i]])

CheckFrames ==
    {CheckFrame(columns, keys) :
        columns \in CheckColumns,
        keys \in SeqsUpTo({1, 2, NaN} \X {KATL, KJFK}, MaxCheckRows)}

Subsets == {<<"date", "airport">>, <<"date">>}

SameKey(r1, r2, subset) == \A c \in Range(subset) : r1[c] = r2[c]

\* A slip: df.duplicated(subset=subset, keep=False), which marks every row
\* of a repeated key.
DuplicatedKeepNone(df, subset) ==
    [i \in DOMAIN df.rows |->
        \E j \in DOMAIN df.rows : j # i /\ SameKey(df.rows[j], df.rows[i], subset)]

\* df.duplicated(subset=subset): marks a row whose key an earlier row has
\* (missing values are equal to each other).
Duplicated(df, subset) ==
    [i \in DOMAIN df.rows |->
        \E j \in 1..(i - 1) : SameKey(df.rows[j], df.rows[i], subset)]

_duplicate_check(name, df, subset) ==
    IF \E c \in Range(subset) : ~HasColumn(df, c) THEN Raise("KeyError")
    ELSE LET duplicates == Len(Compress(df.rows, Duplicated(df, subset)))
         IN  [exc |-> "",
              frame |-> CheckResult(name,
                          IF duplicates = 0 THEN "pass" ELSE "fail",
                          IF duplicates = 0 THEN [n |-> 0, text |-> "No duplicates"]
                          ELSE [n |-> duplicates, text |-> "duplicate rows"],
                          duplicates, 0)]

NoResult == CheckResult("", "", [n |-> 0, text |-> ""], 0, 0)

CheckIdle ==
    /\ cpc = "idle"
    /\ cargs = [name |-> "", df |-> EmptyFrame, subset |-> <<>>]
    /\ cresult = NoResult

\* _duplicate_check(name, df, subset) is called.
DuplicateCheck(df, subset) ==
    /\ cpc = "idle"
    /\ cargs' = [name |-> "duplicates", df |-> df, subset |-> subset]
    /\ LET r == _duplicate_check("duplicates", df, subset)
       IN  IF r.exc = "" THEN cpc' = "returned" /\ cresult' = r.frame
           ELSE cpc' = "raised" /\ UNCHANGED cresult
    /\ UNCHANGED notCheck

ChecksNext == \E df \in CheckFrames, subset \in Subsets : DuplicateCheck(df, subset)

(***************************************************************************)
(* Claims about the validation checks                                      *)
(***************************************************************************)
\* The keys of the rows of the checked frame on the subset.
KeyOf(r) == [c \in Range(cargs.subset) |-> r[c]]

GroupSize(k) == Cardinality({i \in DOMAIN cargs.df.rows : KeyOf(cargs.df.rows[i]) = k})

GroupKeys == {KeyOf(cargs.df.rows[i]) : i \in DOMAIN cargs.df.rows}

\* C9: _duplicate_check returns pass with value 0 exactly when no group of
\* the rows by the key subset has more than one row; otherwise it returns
\* fail with the number of rows beyond the first of their group, that is,
\* the rows that repeat the key of an earlier row.
C9_DuplicateCheck ==
    cpc = "returned" =>
        /\ (cresult.status = "pass" /\ cresult.value = 0) <=> (\A k \in GroupKeys : GroupSize(k) <= 1)
        /\ (\E k \in GroupKeys : GroupSize(k) > 1) =>
              /\ cresult.status = "fail"
              /\ cresult.value = Len(cargs.df.rows) - Cardinality(GroupKeys)

\* Three rows of one (date, airport): fail with value 2.
C9_Witness ==
    /\ cpc = "returned"
    /\ cargs.subset = <<"date", "airport">>
    /\ Len(cargs.df.rows) = 3
    /\ Cardinality(GroupKeys) = 1
    /\ cresult.status = "fail"
    /\ cresult.value = 2

(***************************************************************************)
(* One call of a daily transform on a raw frame                            *)
(***************************************************************************)
\* Raw flight frames: none, a header without rows, rows of the sample as
\* _download_sample leaves them, and the sample as the server sent it.
TransformOtpFrames ==
    {EmptyFrame, DataFrame(OtpColumns, <<>>)}
    \cup {DataFrame(OtpColumns, rows) :
            rows \in SeqsUpTo({OtpRow(d, r[1], r[2], c, 0, 1) :
                                  d \in Days, r \in OtpRoutes, c \in {0, 1}}, MaxRows) \ {<<>>}}
    \cup {OtpJson(<<"date", "origin", "destination">>, << <<1, <<ATL, ORD>>>> >>)}

\* Raw METAR frames: none, a header without rows, and what the server sends.
TransformMetarFrames ==
    {EmptyFrame, DataFrame(MetarColumns, <<>>)}
    \cup {DataFrame(h, <<>>) : h \in MetarHeaders}
    \cup MetarCsvFrames(KATL)

TransformCalls ==
    {[f |-> "movements", df |-> df, airport |-> a, include_canceled |-> b] :
        df \in TransformOtpFrames, a \in {KATL, KJFK}, b \in BOOLEAN}
    \cup {[f |-> "features", df |-> df, airport |-> EmptyStr, include_canceled |-> FALSE] :
        df \in TransformMetarFrames}

\* The columns build_daily_movements reads of a frame that is not empty.
MovementsReads(include_canceled) ==
    {"FlightDate", "Origin", "Dest"}
    \cup (IF include_canceled THEN {} ELSE {"Cancelled", "Diverted"})

\* The call of a transform: what it returns or raises.
TransformResult(call) ==
    IF call.f = "movements"
    THEN IF ~IsEmpty(call.df) /\ \E c \in MovementsReads(call.include_canceled) : ~HasColumn(call.df, c)
         THEN Raise("KeyError")
         ELSE Ok(build_daily_movements(call.df, call.airport, call.include_canceled))
    ELSE daily_metar_features(call.df)

TransformIdle ==
    /\ tpc = "idle"
    /\ tcall = [f |-> "", df |-> EmptyFrame, airport |-> EmptyStr, include_canceled |-> FALSE]
    /\ tout = EmptyFrame

TransformCall(call) ==
    /\ tpc = "idle"
    /\ tcall' = call
    /\ LET r == TransformResult(call)
       IN  IF r.exc = "" THEN tpc' = "returned" /\ tout' = r.frame
           ELSE tpc' = "raised" /\ UNCHANGED tout
    /\ UNCHANGED notTransform

TransformNext == tpc = "idle" /\ \E call \in TransformCalls : TransformCall(call)

(***************************************************************************)
(* Claims about the daily transforms on empty input                        *)
(***************************************************************************)
\* C11: given a raw frame that is empty (no rows, or no columns),
\* build_daily_movements returns a frame without rows whose columns are
\* exactly date, airport, dep_count, arr_count, movements, and
\* daily_metar_features returns a frame without rows whose columns are
\* exactly date, airport, wind_mean, gust_max, vis_min, ceiling_min,
\* precip_any, ts_any, ifr_any; neither raises.
C11_EmptyInShapedEmptyOut ==
    (tpc # "idle" /\ (tcall.df.rows = <<>> \/ tcall.df.columns = <<>>)) =>
        /\ tpc = "returned"
        /\ tout.rows = <<>>
        /\ tcall.f = "movements" =>
              tout.columns = <<"date", "airport", "dep_count", "arr_count", "movements">>
        /\ tcall.f = "features" =>
              tout.columns = <<"date", "airport", "wind_mean", "gust_max", "vis_min",
                               "ceiling_min", "precip_any", "ts_any", "ifr_any">>

\* daily_metar_features returned for a header without rows that has no
\* observation_time column (with rows it raises).
C11_Witness ==
    /\ tpc = "returned"
    /\ tcall.f = "features"
    /\ tcall.df.rows = <<>>
    /\ tcall.df.columns # <<>>
    /\ ~HasColumn(tcall.df, "observation_time")
    /\ Len(tout.columns) = 9
    /\ tout.rows = <<>>

(***************************************************************************)
(* The parts that are at rest in a specification of another part           *)
(***************************************************************************)
EngineIdle ==
    /\ epc = "idle"
    /\ eargs = [datasets |-> EmptyDict, start |-> 0, end |-> 0]
    /\ eresults = <<>>
    /\ eraised = ""

RunIdle ==
    /\ steps = <<>>
    /\ tsa_daily = EmptyFrame
    /\ checks = <<>>
    /\ written = <<>>
    /\ runError = ""

HashIdle ==
    /\ xargs = <<>>
    /\ xhash = <<>>

\* No bundle in the session: the fields of a bundle at their empty values.
NoBundle ==
    [held |-> FALSE,
     datasets |-> [otp |-> EmptyFrame, otp_daily |-> EmptyFrame,
                   metar_daily |-> EmptyFrame, tsa_daily |-> EmptyFrame],
     checks |-> <<>>,
     manifest |-> [rows |-> EmptyDict, hashes |-> EmptyDict],
     params |-> [airports |-> <<>>, start |-> 0, end |-> 0, include_canceled |-> FALSE],
     metar_raw |-> <<>>]

NothingShown ==
    [button |-> "", outcome |-> "", errors |-> <<>>, warnings |-> <<>>, written |-> <<>>,
     args |-> [airports |-> <<>>, start |-> 0, end |-> 0, include_canceled |-> FALSE]]

PageIdle ==
    /\ ingest_data = NoBundle
    /\ cache_data = EmptyDict
    /\ disk = EmptyDict
    /\ fetched = {}
    /\ shown = NothingShown
    /\ presses = 0

ManifestIdle ==
    /\ mpc = "idle"
    /\ mpayload = <<>>
    /\ mfile = [exists |-> FALSE, text |-> <<>>]
    /\ mseen = [read |-> FALSE, exists |-> FALSE, text |-> <<>>]

WindowIdle ==
    /\ wcall = [f |-> "", days |-> 0, today |-> 0, selection |-> <<>>]
    /\ window = [start |-> 0, end |-> 0]

CodeIdle ==
    /\ icode = <<>>
    /\ iresult = <<>>

LaterIdle ==
    /\ TransformIdle /\ EngineIdle /\ RunIdle /\ HashIdle
    /\ PageIdle /\ ManifestIdle /\ WindowIdle /\ CodeIdle

(***************************************************************************)
(* _null_check                                                             *)
(***************************************************************************)
MaxNullRows == 5

MaxNulls == 2

\* A float that is the quotient of two counts, kept as the two counts: the
\* comparisons of the checks with 0.05, 0.75, ... come out for num / den as
\* they do for the exact quotient, at any size of frame a run can hold.
Ratio(num, den) == [num |-> num, den |-> den]

\* ratio < percent / 100
BelowPercent(ratio, percent) == ratio.num * 100 < percent * ratio.den

\* ratio >= percent / 100
AtLeastPercent(ratio, percent) == ratio.num * 100 >= percent * ratio.den

\* The columns that hold codes; no cell of them is missing in the frames
\* here.
CodeColumns == {"airport", "Origin", "Dest"}

\* The frames run_all_checks gives to _null_check have the columns of the
\* raw flights, of the daily weather or of the throughput; here the first
\* and the last, with at most MaxNulls missing cells in the other columns.
NullCheckColumns == {<<>>, <<"date", "tsa_travelers">>, OtpColumns}

NullFrame(columns, n, missing) ==
    DataFrame(columns,
              [i \in 1..n |-> [c \in Range(columns) |-> IF <<i, c>> \in missing THEN NaN ELSE i]])

NullFrames ==
    UNION {{NullFrame(x[1], x[2], Range(missing)) :
                missing \in SeqsUpTo((1..x[2]) \X (Range(x[1]) \ CodeColumns), MaxNulls)} :
            x \in NullCheckColumns \X (0..MaxNullRows)}

\* A slip: elif ratio <= 0.05.
NullWarnUpToFive(ratio) == ratio.num * 100 <= 5 * ratio.den

\* elif ratio < 0.05
NullWarn(ratio) == BelowPercent(ratio, 5)

\* df.isna() of a cell of a column
IsNa(df, i, c) == c \notin CodeColumns /\ df.rows[i][c] = NaN

_null_check(name, df) ==
    LET total == IF ~IsEmpty(df) THEN Len(df.rows) * Len(df.columns) ELSE 1
        nulls == Sum([j \in DOMAIN df.columns |->
                        Cardinality({i \in DOMAIN df.rows : IsNa(df, i, df.columns[j])})])
        ratio == Ratio(nulls, total)
    IN  CheckResult(name,
                    IF ratio.num = 0 THEN "pass" ELSE IF NullWarn(ratio) THEN "warn" ELSE "fail",
                    [n |-> ratio, text |-> "Null ratio"],
                    ratio, "<5%")

\* _null_check(name, df) is called.
NullCheck(df) ==
    /\ cpc = "idle"
    /\ cargs' = [name |-> "nulls", df |-> df, subset |-> <<>>]
    /\ cresult' = _null_check("nulls", df)
    /\ cpc' = "returned"
    /\ UNCHANGED notCheck

NullsNext == cpc = "idle" /\ \E df \in NullFrames : NullCheck(df)

(***************************************************************************)
(* Claims about _null_check                                                *)
(***************************************************************************)
\* The cells of the checked frame, and those of them that are missing.
Cells == (DOMAIN cargs.df.rows) \X Range(cargs.df.columns)

NullCells == {x \in Cells : cargs.df.rows[x[1]][x[2]] = NaN}

\* C12: _null_check returns pass exactly when the frame has no null cell,
\* warn exactly when the ratio of null cells to cells is above 0 and below
\* 5%, and fail exactly when it is 5% or more; a ratio of exactly 4% gives
\* warn and a ratio of exactly 5% gives fail.
C12_NullCheck ==
    cpc = "returned" =>
        LET nulls == Cardinality(NullCells)
            cells == Cardinality(Cells)
        IN  /\ cresult.status = "pass" <=> nulls = 0
            /\ cresult.status = "warn" <=> (nulls > 0 /\ nulls * 100 < 5 * cells)
            /\ cresult.status = "fail" <=> (nulls > 0 /\ nulls * 100 >= 5 * cells)
            /\ (nulls > 0 /\ nulls * 25 = cells) => cresult.status = "warn"
            /\ (nulls > 0 /\ nulls * 20 = cells) => cresult.status = "fail"

\* One null cell of twenty-five: 4%, warn.
C12_Witness ==
    /\ cpc = "returned"
    /\ Cardinality(Cells) = 25
    /\ Cardinality(NullCells) = 1
    /\ cresult.status = "warn"
    /\ cresult.value = Ratio(1, 25)

(***************************************************************************)
(* _value_range_check                                                      *)
(***************************************************************************)
MaxSeries == 21

MaxOdd == 2

\* Python's None.
None == "None"

\* The bands run_all_checks checks the daily movements and the travelers
\* against.
Bands == {<<0, 3000>>, <<1000, 4000000>>}

\* A series of n values of a column: values in the middle of the band,
\* but for the first few, which are at an end of the band, just outside
\* it, or missing.
RangeSeries(band, n, odd) ==
    [i \in 1..n |-> IF i <= Len(odd) THEN odd[i] ELSE (band[1] + band[2]) \div 2]

RangeCalls ==
    UNION {{[series |-> RangeSeries(x[1], x[2], odd), minimum |-> x[1][1], maximum |-> x[1][2]] :
                odd \in SeqsUpTo({x[1][1] - 1, x[1][1], x[1][2], x[1][2] + 1, NaN}, MaxOdd)} :
            x \in Bands \X (0..MaxSeries)}

\* A slip: series <= minimum.
BelowOrAt(v, minimum) == v # NaN /\ v <= minimum

\* series < minimum (a comparison with a missing value is False)
Below(v, minimum) == v # NaN /\ v < minimum

\* series > maximum
Above(v, maximum) == v # NaN /\ v > maximum

_value_range_check(name, series, minimum, maximum) ==
    IF series = <<>>
    THEN CheckResult(name, "warn", [n |-> 0, text |-> "Series empty"], None, <<minimum, maximum>>)
    ELSE LET below == Cardinality({i \in DOMAIN series : Below(series[i], minimum)})
             above == Cardinality({i \in DOMAIN series : Above(series[i], maximum)})
             total == Len(series)
         IN  IF below = 0 /\ above = 0
             THEN CheckResult(name, "pass", [n |-> 0, text |-> "Within expected range"],
                              [below |-> below, above |-> above], <<minimum, maximum>>)
             ELSE CheckResult(name,
                              IF BelowPercent(Ratio(below + above, total), 5) THEN "warn" ELSE "fail",
                              [n |-> below + above, text |-> "values out of range"],
                              [below |-> below, above |-> above], <<minimum, maximum>>)

\* _value_range_check(name, series, minimum, maximum) is called.
ValueRangeCheck(call) ==
    /\ cpc = "idle"
    /\ cargs' = [name |-> "range", series |-> call.series,
                 minimum |-> call.minimum, maximum |-> call.maximum]
    /\ cresult' = _value_range_check("range", call.series, call.minimum, call.maximum)
    /\ cpc' = "returned"
    /\ UNCHANGED notCheck

RangesNext == cpc = "idle" /\ \E call \in RangeCalls : ValueRangeCheck(call)

(***************************************************************************)
(* Claims about _value_range_check                                         *)
(***************************************************************************)
\* The values of the checked series that lie outside the inclusive band.
OutOfBand ==
    {i \in DOMAIN cargs.series :
        /\ cargs.series[i] # NaN
        /\ cargs.series[i] < cargs.minimum \/ cargs.series[i] > cargs.maximum}

Classified ==
    LET out == Cardinality(OutOfBand)
        total == Len(cargs.series)
    IN  /\ cresult.status = "pass" <=> out = 0
        /\ cresult.status = "warn" <=> (out > 0 /\ out * 100 < 5 * total)
        /\ cresult.status = "fail" <=> (out > 0 /\ out * 100 >= 5 * total)

\* C13 as stated: for every series, the empty one included,
\* _value_range_check returns pass if no value lies outside the inclusive
\* band, warn if some value does and the fraction of them is below 5%, and
\* fail otherwise.
C13_ClassifiesEverySeries == cpc = "returned" => Classified

\* C13 amended: for every series that is not empty, _value_range_check
\* returns pass if no value lies outside the inclusive band (a value equal
\* to an end of the band is inside), warn if some value does and the
\* fraction of them is below 5%, and fail otherwise; for the empty series
\* it returns warn with the message "Series empty" and no value.
C13_ClassifiesOrWarnsEmpty ==
    cpc = "returned" =>
        IF cargs.series = <<>>
        THEN cresult.status = "warn" /\ cresult.message.text = "Series empty" /\ cresult.value = None
        ELSE /\ Classified
             /\ cresult.value.below + cresult.value.above = Cardinality(OutOfBand)

\* Twenty-one values, one above the band and one at its upper end: warn.
C13_Witness ==
    /\ cpc = "returned"
    /\ Len(cargs.series) = 21
    /\ Cardinality(OutOfBand) = 1
    /\ \E i \in DOMAIN cargs.series : cargs.series[i] = cargs.maximum
    /\ cresult.status = "warn"
    /\ cresult.value = [below |-> 0, above |-> 1]

(***************************************************************************)
(* coverage_ratio and _coverage_check                                      *)
(***************************************************************************)
MaxCheckDay == 4

MaxCoverRows == 4

CheckDays == 1..MaxCheckDay

\* The windows of a check: params["start"] and params["end"], in either
\* order (date_range of a start after the end is empty).
CheckWindows == CheckDays \X CheckDays

\* A daily frame with a date in each row (NaN for a missing one), or the
\* same frame without the date column.
CoverageFrame(columns, dates) ==
    DataFrame(columns,
              [i \in DOMAIN dates |->
                  [c \in Range(columns) |-> IF c = "date" THEN dates[i] ELSE 10 * i]])

CoverageFrames ==
    {CoverageFrame(columns, dates) :
        columns \in {<<"date", "value">>, <<"value">>, <<>>},
        dates \in SeqsUpTo(CheckDays \cup {NaN}, MaxCoverRows)}

\* A slip: the fraction of the expected dates that are not observed.
MissingRatio(dates, start, end) ==
    LET expected == Range(date_range(start, end))
    IN  IF expected = {} THEN Ratio(0, 1)
        ELSE Ratio(Cardinality(expected \ Range(dates)), Cardinality(expected))

coverage_ratio(dates, start, end) ==
    LET expected == Range(date_range(start, end))
        observed == Range(dates)
    IN  IF expected = {} THEN Ratio(0, 1)
        ELSE Ratio(Cardinality(expected \cap observed), Cardinality(expected))

\* A slip: warn only above 75%.
CoverageStatusAbove(ratio) ==
    IF AtLeastPercent(ratio, 95) THEN "pass"
    ELSE IF ratio.num * 100 > 75 * ratio.den THEN "warn" ELSE "fail"

\* "pass" if ratio >= 0.95 else ("warn" if ratio >= 0.75 else "fail")
CoverageStatus(ratio) ==
    IF AtLeastPercent(ratio, 95) THEN "pass"
    ELSE IF AtLeastPercent(ratio, 75) THEN "warn" ELSE "fail"

\* df["date"]
DateColumn(df) == [i \in DOMAIN df.rows |-> df.rows[i].date]

_coverage_check(name, df, start, end) ==
    IF IsEmpty(df) \/ ~HasColumn(df, "date")
    THEN CheckResult(name, "fail", [n |-> 0, text |-> "Missing date coverage"],
                     Ratio(0, 1), Ratio(1, 1))
    ELSE LET ratio == coverage_ratio(DateColumn(df), start, end)
         IN  CheckResult(name, CoverageStatus(ratio), [n |-> ratio, text |-> "Coverage"],
                         ratio, ">=95%")

\* _coverage_check(name, df, start, end) is called.
CoverageCheck(df, w) ==
    /\ cpc = "idle"
    /\ cargs' = [name |-> "coverage", df |-> df, start |-> w[1], end |-> w[2]]
    /\ cresult' = _coverage_check("coverage", df, w[1], w[2])
    /\ cpc' = "returned"
    /\ UNCHANGED notCheck

CoverageNext == cpc = "idle" /\ \E df \in CoverageFrames, w \in CheckWindows : CoverageCheck(df, w)

(***************************************************************************)
(* Claims about the coverage check                                         *)
(***************************************************************************)
\* The calendar dates of the window of the check, and those of them that
\* occur in the date column of the checked frame.
CalendarDates == {d \in CheckDays : cargs.start <= d /\ d <= cargs.end}

CoveredDates ==
    {d \in CalendarDates : \E i \in DOMAIN cargs.df.rows : cargs.df.rows[i].date = d}

NoDates == cargs.df.rows = <<>> \/ cargs.df.columns = <<>> \/ ~HasColumn(cargs.df, "date")

\* C14: _coverage_check returns fail with value 0.0 and the message
\* "Missing date coverage" when the frame is empty or has no date column;
\* otherwise its value is the fraction of the calendar dates of
\* [start, end] that occur in the date column (0.0 when the window has no
\* date), and its status is pass when the fraction is at least 95%, warn
\* when it is at least 75% and below 95%, and fail when it is below 75%.
C14_CoverageCheck ==
    cpc = "returned" =>
        IF NoDates
        THEN /\ cresult.status = "fail"
             /\ cresult.value = Ratio(0, 1)
             /\ cresult.message.text = "Missing date coverage"
        ELSE LET covered == Cardinality(CoveredDates)
                 calendar == Cardinality(CalendarDates)
             IN  /\ calendar > 0 => cresult.value = Ratio(covered, calendar)
                 /\ calendar = 0 => cresult.value = Ratio(0, 1)
                 /\ cresult.status = "pass" <=> (calendar > 0 /\ covered * 100 >= 95 * calendar)
                 /\ cresult.status = "warn" <=>
                       (covered * 100 >= 75 * calendar /\ covered * 100 < 95 * calendar)
                 /\ cresult.status = "fail" <=> (calendar = 0 \/ covered * 100 < 75 * calendar)

\* Three of the four dates of the window are in the date column: exactly
\* 75%, warn.
C14_Witness ==
    /\ cpc = "returned"
    /\ ~NoDates
    /\ Cardinality(CalendarDates) = 4
    /\ Cardinality(CoveredDates) = 3
    /\ cresult.status = "warn"
    /\ cresult.value = Ratio(3, 4)

\* ratio a <= ratio b
RatioAtMost(a, b) == a.num * b.den <= b.num * a.den

\* The windows that contain the window of the check.
WiderWindows ==
    {w \in CheckWindows : CalendarDates \subseteq Range(date_range(w[1], w[2]))}

\* C15 as stated: for the dates of the checked frame and every window that
\* contains the window of the check, coverage_ratio over the wider window
\* is at most coverage_ratio over the window of the check.
C15_WiderWindowNeverRaisesCoverage ==
    (cpc = "returned" /\ ~NoDates) =>
        \A w \in WiderWindows :
            RatioAtMost(coverage_ratio(DateColumn(cargs.df), w[1], w[2]), cresult.value)

\* C15 amended: for the dates of the checked frame and every window that
\* contains the window of the check and has none of these dates outside
\* the window of the check, coverage_ratio over the wider window is at
\* most coverage_ratio over the window of the check.
C15_WiderWindowWithoutNewDates ==
    (cpc = "returned" /\ ~NoDates) =>
        \A w \in WiderWindows :
            (Range(DateColumn(cargs.df)) \cap Range(date_range(w[1], w[2])) \subseteq CalendarDates)
                => RatioAtMost(coverage_ratio(DateColumn(cargs.df), w[1], w[2]), cresult.value)

\* The one date of the window is covered and a wider window has no other
\* date of the frame: its coverage is lower.
C15_Witness ==
    /\ cpc = "returned"
    /\ ~NoDates
    /\ cargs.start = 2 /\ cargs.end = 2
    /\ cresult.value = Ratio(1, 1)
    /\ Range(DateColumn(cargs.df)) = {2}
    /\ coverage_ratio(DateColumn(cargs.df), 1, 3) = Ratio(1, 3)

(***************************************************************************)
(* run_all_checks                                                          *)
(***************************************************************************)
MaxEngineDay == 2

EngineDays == 1..MaxEngineDay

\* params["start"] and params["end"], in either order.
EngineWindows == EngineDays \X EngineDays

TsaColumns == <<"date", "tsa_travelers">>

\* A daily aggregate with one row for each of some dates, with all of its
\* columns or without one of them.
EngineFrame(columns, dates) ==
    DataFrame(columns,
              [i \in DOMAIN dates |->
                  [c \in Range(columns) |->
                      CASE c = "date" -> dates[i]
                        [] c = "airport" -> KJFK
                        [] c = "tsa_travelers" -> 2000000 + i
                        [] OTHER -> 10 * i]])

\* The columns without one of them.
Without(columns, c) == SelectSeq(columns, LAMBDA x : x # c)

EngineFrames(headers) ==
    {EmptyFrame} \cup
    {EngineFrame(h, SortedDays(S)) : h \in headers, S \in SUBSET EngineDays}

\* The datasets of a call: the raw flights (or no such key) and the three
\* daily aggregates.
EngineDatasets ==
    {IF raw THEN [otp |-> DataFrame(OtpColumns, <<OtpRow(1, ATL, ORD, 0, 0, 1)>>),
                  otp_daily |-> x[1], metar_daily |-> x[2], tsa_daily |-> x[3]]
     ELSE [otp_daily |-> x[1], metar_daily |-> x[2], tsa_daily |-> x[3]] :
        raw \in BOOLEAN,
        x \in EngineFrames({MovementColumns, Without(MovementColumns, "airport"),
                            Without(MovementColumns, "movements")})
              \X EngineFrames({FeatureColumns, Without(FeatureColumns, "date")})
              \X EngineFrames({TsaColumns, Without(TsaColumns, "date")})}

\* datasets.get(key, pd.DataFrame())
GetFrame(datasets, key) == IF key \in DOMAIN datasets THEN datasets[key] ELSE EmptyFrame

\* df[c]
Column(df, c) == [i \in DOMAIN df.rows |-> df.rows[i][c]]

_schema_check(name, df, required) ==
    LET missing == SelectSeq(required, LAMBDA col : ~HasColumn(df, col))
    IN  CheckResult(name,
                    IF missing = <<>> THEN "pass" ELSE "fail",
                    IF missing = <<>> THEN [n |-> <<>>, text |-> "Schema OK"]
                    ELSE [n |-> missing, text |-> "Missing columns"],
                    df.columns, required)

\* The calls of run_all_checks, in the order of the code.
SchemaChecks ==
    << [name |-> "OTP schema", key |-> "otp", required |-> OtpColumns],
       [name |-> "OTP daily schema", key |-> "otp_daily", required |-> MovementColumns],
       [name |-> "METAR daily schema", key |-> "metar_daily", required |-> FeatureColumns],
       [name |-> "TSA schema", key |-> "tsa_daily", required |-> TsaColumns] >>

NullChecks ==
    << [name |-> "OTP nulls", key |-> "otp"],
       [name |-> "METAR nulls", key |-> "metar_daily"],
       [name |-> "TSA nulls", key |-> "tsa_daily"] >>

DuplicateChecks ==
    << [name |-> "OTP daily duplicates", key |-> "otp_daily", subset |-> <<"date", "airport">>],
       [name |-> "METAR daily duplicates", key |-> "metar_daily", subset |-> <<"date", "airport">>],
       [name |-> "TSA duplicates", key |-> "tsa_daily", subset |-> <<"date">>] >>

CoverageChecks ==
    << [name |-> "OTP coverage", key |-> "otp_daily"],
       [name |-> "METAR coverage", key |-> "metar_daily"],
       [name |-> "TSA coverage", key |-> "tsa_daily"] >>

RangeChecks ==
    << [name |-> "Daily movements", key |-> "otp_daily", column |-> "movements", band |-> <<0, 3000>>],
       [name |-> "Wind mean", key |-> "metar_daily", column |-> "wind_mean", band |-> <<0, 150>>],
       [name |-> "Wind gust", key |-> "metar_daily", column |-> "gust_max", band |-> <<0, 200>>],
       [name |-> "Visibility", key |-> "metar_daily", column |-> "vis_min", band |-> <<0, 15>>],
       [name |-> "Ceiling", key |-> "metar_daily", column |-> "ceiling_min", band |-> <<0, 20000>>],
       [name |-> "TSA travelers", key |-> "tsa_daily", column |-> "tsa_travelers",
        band |-> <<1000, 4000000>>] >>

DailyKeys == <<"otp_daily", "metar_daily", "tsa_daily">>

\* "pass" if ratio >= 0.8 else ("warn" if ratio >= 0.5 else "fail")
OverlapStatus(ratio) ==
    IF AtLeastPercent(ratio, 80) THEN "pass"
    ELSE IF AtLeastPercent(ratio, 50) THEN "warn" ELSE "fail"

\* The last block of run_all_checks: what it appends, or what it raises.
Overlap(datasets, start, end) ==
    IF \E k \in DOMAIN DailyKeys : IsEmpty(GetFrame(datasets, DailyKeys[k])) THEN Ok(<<>>)
    ELSE IF \E k \in DOMAIN DailyKeys : ~HasColumn(GetFrame(datasets, DailyKeys[k]), "date")
    THEN Raise("KeyError")
    ELSE LET dates == {d \in Range(Column(GetFrame(datasets, "otp_daily"), "date")) :
                          /\ d \in Range(Column(GetFrame(datasets, "metar_daily"), "date"))
                          /\ d \in Range(Column(GetFrame(datasets, "tsa_daily"), "date"))}
             expected == Range(date_range(start, end))
             ratio == IF expected # {} THEN Ratio(Cardinality(dates), Cardinality(expected))
                      ELSE Ratio(0, 1)
         IN  Ok(<<CheckResult("Cross-dataset date overlap", OverlapStatus(ratio),
                              [n |-> ratio, text |-> "Shared coverage"], ratio, ">=80%")>>)

\* A slip: the value-range results appended before the coverage results.
BatteryRangesFirst(schema, nulls, duplicates, coverage, ranges, overlap) ==
    schema \o nulls \o duplicates \o ranges \o coverage \o overlap

\* The order of the results.append calls.
Battery(schema, nulls, duplicates, coverage, ranges, overlap) ==
    schema \o nulls \o duplicates \o coverage \o ranges \o overlap

\* run_all_checks(datasets, params): the list it returns, or the exception
\* that leaves it.
run_all_checks(datasets, start, end) ==
    LET schema == [k \in DOMAIN SchemaChecks |->
                      _schema_check(SchemaChecks[k].name, GetFrame(datasets, SchemaChecks[k].key),
                                    SchemaChecks[k].required)]
        nulls == [k \in DOMAIN NullChecks |->
                     _null_check(NullChecks[k].name, GetFrame(datasets, NullChecks[k].key))]
        called == SelectSeq(DuplicateChecks, LAMBDA c : ~IsEmpty(GetFrame(datasets, c.key)))
        duplicates == [k \in DOMAIN called |->
                          _duplicate_check(called[k].name, GetFrame(datasets, called[k].key),
                                           called[k].subset)]
        coverage == [k \in DOMAIN CoverageChecks |->
                        _coverage_check(CoverageChecks[k].name,
                                        GetFrame(datasets, CoverageChecks[k].key), start, end)]
        ranged == SelectSeq(RangeChecks, LAMBDA c : HasColumn(GetFrame(datasets, c.key), c.column))
        ranges == [k \in DOMAIN ranged |->
                      _value_range_check(ranged[k].name,
                                         Column(GetFrame(datasets, ranged[k].key), ranged[k].column),
                                         ranged[k].band[1], ranged[k].band[2])]
        overlap == Overlap(datasets, start, end)
    IN  IF \E k \in DOMAIN duplicates : duplicates[k].exc # "" THEN Raise("KeyError")
        ELSE IF overlap.exc # "" THEN Raise(overlap.exc)
        ELSE Ok(Battery(schema, nulls, [k \in DOMAIN duplicates |-> duplicates[k].frame],
                        coverage, ranges, overlap.frame))

\* run_all_checks(datasets, params) is called.
RunAllChecks(datasets, w) ==
    /\ epc = "idle"
    /\ eargs' = [datasets |-> datasets, start |-> w[1], end |-> w[2]]
    /\ \E r \in {run_all_checks(datasets, w[1], w[2])} :
          IF r.exc = "" THEN epc' = "returned" /\ eresults' = r.frame /\ UNCHANGED eraised
          ELSE epc' = "raised" /\ eraised' = r.exc /\ UNCHANGED eresults
    /\ UNCHANGED notEngine

EngineNext ==
    epc = "idle" /\ \E datasets \in EngineDatasets, w \in EngineWindows : RunAllChecks(datasets, w)

(***************************************************************************)
(* Claims about run_all_checks                                             *)
(***************************************************************************)
\* The three daily aggregates of the call, and the results by name.
Daily(key) == GetFrame(eargs.datasets, key)

NonEmpty(df) == df.rows # <<>> /\ df.columns # <<>>

AllNonEmpty == \A k \in DOMAIN DailyKeys : NonEmpty(Daily(DailyKeys[k]))

Named(name) == {i \in DOMAIN eresults : eresults[i].name = name}

\* The dates on which an aggregate has a row.
DatesOf(df) == IF HasColumn(df, "date") THEN {df.rows[i].date : i \in DOMAIN df.rows} ELSE {}

EngineCalendar == {d \in EngineDays : eargs.start <= d /\ d <= eargs.end}

\* The dates of the window on which all three aggregates have a row.
SharedDates ==
    {d \in EngineCalendar : \A k \in DOMAIN DailyKeys : d \in DatesOf(Daily(DailyKeys[k]))}

\* C16: run_all_checks emits the cross-dataset overlap result exactly when
\* the three daily aggregates are all non-empty; its value is the fraction
\* of the calendar dates of [start, end] on which all three aggregates
\* have a row, so it lies in [0, 1]; its status is pass when the value is
\* at least 80%, warn when it is at least 50% and below 80%, fail when it
\* is below 50%; aggregates with pairwise disjoint date sets give fail
\* with value 0.0.
C16_OverlapIsFractionOfWindow ==
    epc = "returned" =>
        /\ Cardinality(Named("Cross-dataset date overlap")) = (IF AllNonEmpty THEN 1 ELSE 0)
        /\ \A i \in Named("Cross-dataset date overlap") :
              LET v == eresults[i].value
                  shared == Cardinality(SharedDates)
                  calendar == Cardinality(EngineCalendar)
              IN  /\ 0 <= v.num /\ v.num <= v.den
                  /\ calendar > 0 => v.num * calendar = shared * v.den
                  /\ eresults[i].status = "pass" <=> v.num * 100 >= 80 * v.den
                  /\ eresults[i].status = "warn" <=>
                        (v.num * 100 >= 50 * v.den /\ v.num * 100 < 80 * v.den)
                  /\ eresults[i].status = "fail" <=> v.num * 100 < 50 * v.den
                  /\ (\A k, l \in DOMAIN DailyKeys :
                         k # l => DatesOf(Daily(DailyKeys[k])) \cap DatesOf(Daily(DailyKeys[l])) = {})
                        => (eresults[i].status = "fail" /\ v.num = 0)

\* The kinds of check, by the names of their results.
KindOf(name) ==
    CASE \E k \in DOMAIN SchemaChecks : SchemaChecks[k].name = name -> "schema"
      [] \E k \in DOMAIN NullChecks : NullChecks[k].name = name -> "null-ratio"
      [] \E k \in DOMAIN DuplicateChecks : DuplicateChecks[k].name = name -> "duplicates"
      [] \E k \in DOMAIN RangeChecks : RangeChecks[k].name = name -> "value-range"
      [] \E k \in DOMAIN CoverageChecks : CoverageChecks[k].name = name -> "temporal coverage"
      [] OTHER -> "cross-source overlap"

PositionIn(order, kind) == CHOOSE k \in DOMAIN order : order[k] = kind

InOrderOfKinds(order) ==
    \A i, j \in DOMAIN eresults :
        i < j => PositionIn(order, KindOf(eresults[i].name)) <= PositionIn(order, KindOf(eresults[j].name))

\* The checks that a call skips: a duplicate check of an empty aggregate, a
\* value-range check of a missing column, the overlap check unless all
\* three aggregates are non-empty.
Skipped(name) ==
    \/ \E k \in DOMAIN DuplicateChecks :
          DuplicateChecks[k].name = name /\ ~NonEmpty(Daily(DuplicateChecks[k].key))
    \/ \E k \in DOMAIN RangeChecks :
          RangeChecks[k].name = name /\ ~HasColumn(Daily(RangeChecks[k].key), RangeChecks[k].column)
    \/ name = "Cross-dataset date overlap" /\ ~AllNonEmpty

NamesOf(checkTable) == [k \in DOMAIN checkTable |-> checkTable[k].name]

\* Every result is of a check that was not skipped, and every check that
\* was not skipped has exactly one result.
OnlySkippedAreAbsent(names) ==
    /\ \A i \in DOMAIN eresults : eresults[i].name \in Range(names) /\ ~Skipped(eresults[i].name)
    /\ \A k \in DOMAIN names :
          Cardinality(Named(names[k])) = (IF Skipped(names[k]) THEN 0 ELSE 1)

AllNames ==
    NamesOf(SchemaChecks) \o NamesOf(NullChecks) \o NamesOf(DuplicateChecks)
    \o NamesOf(RangeChecks) \o NamesOf(CoverageChecks) \o <<"Cross-dataset date overlap">>

NeedsMissingColumn(name) ==
    \/ \E k \in DOMAIN DuplicateChecks :
          /\ DuplicateChecks[k].name = name
          /\ NonEmpty(Daily(DuplicateChecks[k].key))
          /\ \E c \in Range(DuplicateChecks[k].subset) : ~HasColumn(Daily(DuplicateChecks[k].key), c)
    \/ \E k \in DOMAIN CoverageChecks :
          /\ CoverageChecks[k].name = name
          /\ NonEmpty(Daily(CoverageChecks[k].key))
          /\ ~HasColumn(Daily(CoverageChecks[k].key), "date")
    \/ \E k \in DOMAIN RangeChecks :
          /\ RangeChecks[k].name = name
          /\ NonEmpty(Daily(RangeChecks[k].key))
          /\ ~HasColumn(Daily(RangeChecks[k].key), RangeChecks[k].column)
    \/ /\ name = "Cross-dataset date overlap"
       /\ AllNonEmpty
       /\ \E k \in DOMAIN DailyKeys : ~HasColumn(Daily(DailyKeys[k]), "date")

\* C18: run_all_checks never raises, and a check of a non-empty aggregate
\* that lacks a column the check needs has a result with status fail.
C18_MissingColumnGivesFail ==
    epc # "idle" =>
        /\ epc = "returned"
        /\ \A k \in DOMAIN AllNames :
              NeedsMissingColumn(AllNames[k]) =>
                  \E i \in Named(AllNames[k]) : eresults[i].status = "fail"

(***************************************************************************)
(* _hash_dataframe                                                         *)
(***************************************************************************)
MaxHashRows == 2

\* Aggregates to hash: no frame, a header, and rows of a date and a count.
HashFrames ==
    {EmptyFrame} \cup
    {DataFrame(TsaColumns, [i \in DOMAIN cells |->
                               [date |-> cells[i][1], tsa_travelers |-> cells[i][2]]]) :
        cells \in SeqsUpTo({1, 2} \X {2100000, 2200000}, MaxHashRows)}

\* pd.util.hash_pandas_object(df, index=False): one 64-bit hash for each
\* row, in the order of the rows, computed from the values of the row in
\* the order of the columns (not from the names of the columns).  A hash
\* stands for what it is the hash of.
hash_pandas_object(df) ==
    [i \in DOMAIN df.rows |-> [j \in DOMAIN df.columns |-> df.rows[i][df.columns[j]]]]

\* hashlib.sha256(digest).hexdigest(): a digest stands for the bytes it is
\* the digest of.
Sha256(bytes) == <<"sha256", bytes>>

_hash_dataframe(df) ==
    IF IsEmpty(df) THEN EmptyStr ELSE Sha256(hash_pandas_object(df))

HashBoth(df1, df2) ==
    /\ xargs = <<>>
    /\ xargs' = <<df1, df2>>
    /\ xhash' = <<_hash_dataframe(df1), _hash_dataframe(df2)>>
    /\ UNCHANGED notHash

HashNext == xargs = <<>> /\ \E df1, df2 \in HashFrames : HashBoth(df1, df2)

(***************************************************************************)
(* Claims about _hash_dataframe                                            *)
(***************************************************************************)
\* The two aggregates hold the same rows, each as many times in the one as
\* in the other, in whatever order.
SameRows(df1, df2) ==
    \A r \in Range(df1.rows) \cup Range(df2.rows) :
        Cardinality({i \in DOMAIN df1.rows : df1.rows[i] = r})
        = Cardinality({i \in DOMAIN df2.rows : df2.rows[i] = r})

\* C20: two aggregates that hold the same rows in a different order get
\* the same content hash, two aggregates with different row content get
\* different hashes, and an empty aggregate hashes to the empty string.
C20_HashIgnoresRowOrder ==
    xargs # <<>> =>
        /\ SameRows(xargs[1], xargs[2]) => xhash[1] = xhash[2]
        /\ ~SameRows(xargs[1], xargs[2]) => xhash[1] # xhash[2]
        /\ \A k \in {1, 2} :
              (xargs[k].rows = <<>> \/ xargs[k].columns = <<>>) => xhash[k] = EmptyStr

(***************************************************************************)
(* An ingest run: render, from "Run Ingest" to "Ingest complete"           *)
(***************************************************************************)
\* The runs of the page that are followed here: one airport, every window.
IngestConfigs == {c \in RunConfigs : c.airports = <<KJFK>>}

\* fetch_tsa_cached(start_iso, end_iso)
TsaCall(args) == [f |-> "tsa", airports |-> <<>>, start |-> args.start, end |-> args.end]

\* The steps of the try block in the order of the code ("OTP pull" and
\* "Daily movements" are taken together).
StepOrder ==
    <<"Daily movements", "METAR pull", "TSA pull", "Validations", "Write Parquet">>

\* The run has come to the step: the steps before it are done, none failed.
Ready(step) ==
    /\ runError = ""
    /\ \E k \in DOMAIN StepOrder :
          /\ StepOrder[k] = step
          /\ stage = (IF k = 1 THEN "idle" ELSE StepOrder[k - 1])

RawFile(source, entity, day) == [kind |-> "raw", path |-> <<source, entity, day>>]

\* The part of _write_raw_outputs for the flights: one file for each
\* airport and day of the raw rows.
WriteRawOtp(otp_df) ==
    IF IsEmpty(otp_df) THEN {}
    ELSE {RawFile("otp", a, otp_df.rows[i].FlightDate) :
            <<a, i>> \in {x \in (Range(Column(otp_df, "Origin")) \cup Range(Column(otp_df, "Dest")))
                                \X DOMAIN otp_df.rows :
                            otp_df.rows[x[2]].Origin = x[1] \/ otp_df.rows[x[2]].Dest = x[1]}}

\* The part for the weather of one airport: the files, or the exception of
\* pd.to_datetime(datetime.utcnow()).dt when the frame has neither an
\* observation_time nor a time column.
WriteRawMetar(airport, df) ==
    IF IsEmpty(df) THEN [exc |-> "", files |-> {}]
    ELSE IF HasColumn(df, "observation_time")
    THEN [exc |-> "",
          files |-> {RawFile("metar", airport, df.rows[i].observation_time \div HoursPerDay) :
                        i \in DOMAIN df.rows}]
    ELSE IF HasColumn(df, "time")
    THEN [exc |-> "",
          files |-> {RawFile("metar", airport, df.rows[i].time \div HoursPerDay) :
                        i \in DOMAIN df.rows}]
    ELSE [exc |-> "AttributeError", files |-> {}]

WriteRawTsa(tsa_df) ==
    IF IsEmpty(tsa_df) THEN {}
    ELSE {RawFile("tsa", <<"national">>, tsa_df.rows[i].date) : i \in DOMAIN tsa_df.rows}

\* _write_raw_outputs: the groups of files written, in order, and the
\* exception that ended it, if any.
_write_raw_outputs(otp_df, metar_dfs, tsa_df) ==
    LET parts == [k \in DOMAIN metar_dfs |-> WriteRawMetar(metar_dfs[k].airport, metar_dfs[k].df)]
        failing == {k \in DOMAIN parts : parts[k].exc # ""}
        first == IF failing = {} THEN Len(parts) + 1
                 ELSE CHOOSE k \in failing : \A l \in failing : k <= l
    IN  [exc |-> IF failing = {} THEN "" ELSE parts[first].exc,
         written |-> <<WriteRawOtp(otp_df)>>
                     \o [k \in 1..(first - 1) |-> parts[k].files]
                     \o (IF failing = {} THEN <<WriteRawTsa(tsa_df)>> ELSE <<>>)]

\* write_parquet(df, processed_root / name)
Snapshot(name, df) == {[kind |-> "snapshot", path |-> <<name>>, df |-> df]}

\* A slip: the manifest with the row count of the flights for every dataset.
WriteProcessedRowsOfFlights(datasets) ==
    << Snapshot("otp_daily.parquet", GetFrame(datasets, "otp_daily")),
       Snapshot("wx_daily.parquet", GetFrame(datasets, "metar_daily")),
       Snapshot("tsa_daily.parquet", GetFrame(datasets, "tsa_daily")),
       {[kind |-> "manifest", path |-> <<"manifest.json">>,
         rows |-> [k \in Range(DailyKeys) |-> Len(GetFrame(datasets, "otp_daily").rows)],
         hashes |-> [k \in Range(DailyKeys) |-> _hash_dataframe(GetFrame(datasets, k))]]} >>

\* A slip: the manifest written before the snapshots.
WriteProcessedManifestFirst(datasets) ==
    << {[kind |-> "manifest", path |-> <<"manifest.json">>,
         rows |-> [k \in Range(DailyKeys) |-> Len(GetFrame(datasets, k).rows)],
         hashes |-> [k \in Range(DailyKeys) |-> _hash_dataframe(GetFrame(datasets, k))]]},
       Snapshot("otp_daily.parquet", GetFrame(datasets, "otp_daily")),
       Snapshot("wx_daily.parquet", GetFrame(datasets, "metar_daily")),
       Snapshot("tsa_daily.parquet", GetFrame(datasets, "tsa_daily")) >>

\* _write_processed_outputs: the three snapshots, then the manifest.
_write_processed_outputs(datasets) ==
    << Snapshot("otp_daily.parquet", GetFrame(datasets, "otp_daily")),
       Snapshot("wx_daily.parquet", GetFrame(datasets, "metar_daily")),
       Snapshot("tsa_daily.parquet", GetFrame(datasets, "tsa_daily")),
       {[kind |-> "manifest", path |-> <<"manifest.json">>,
         rows |-> [k \in Range(DailyKeys) |-> Len(GetFrame(datasets, k).rows)],
         hashes |-> [k \in Range(DailyKeys) |-> _hash_dataframe(GetFrame(datasets, k))]]} >>

\* A mean of winds as the checks read it: NaN for the mean of no numbers,
\* else the whole number it is or the next one away from zero, which is
\* below 0 and above 150 exactly when the mean is.
WindMeanRead(m) ==
    IF m.den = 0 THEN NaN
    ELSE IF m.num >= 0 THEN (m.num + m.den - 1) \div m.den
    ELSE m.num \div m.den

\* The weather aggregate with its means read so.
WeatherRead(df) ==
    IF ~HasColumn(df, "wind_mean") THEN df
    ELSE DataFrame(df.columns,
                   [i \in DOMAIN df.rows |->
                       [df.rows[i] EXCEPT !.wind_mean = WindMeanRead(@)]])

\* datasets = {"otp": otp_raw, "otp_daily": otp_daily, ...}
RunDatasets ==
    [otp |-> otp_raw, otp_daily |-> otp_daily, metar_daily |-> metar_daily,
     tsa_daily |-> tsa_daily]

\* "Run Ingest" with airports selected: the steps "OTP pull" and "Daily
\* movements".
RunFlights(args, r) ==
    /\ Ready("Daily movements")
    /\ steps = <<>>
    /\ stage' = "Daily movements"
    /\ steps' = <<"OTP pull", "Daily movements">>
    /\ runArgs' = args
    /\ otp_raw' = r.frame
    /\ otp_synthetic' = r.synthetic
    /\ pyhash' = [pyhash EXCEPT ![1] = Remember(@, r.h)]
    /\ LET frames == [k \in DOMAIN args.airports |->
                         build_daily_movements(r.frame, args.airports[k], args.include_canceled)]
       IN  /\ daily_frames' = frames
           /\ otp_daily' = Concat(frames)
    /\ UNCHANGED <<metar_data, metar_daily_frames, metar_daily, warnings>>
    /\ UNCHANGED <<tsa_daily, checks, written, runError>>
    /\ UNCHANGED notRun

\* The step "METAR pull".
RunWeather(rs) ==
    /\ Ready("METAR pull")
    /\ stage' = "METAR pull"
    /\ steps' = Append(steps, "METAR pull")
    /\ LET data == [k \in DOMAIN runArgs.airports |->
                       [airport |-> runArgs.airports[k], df |-> rs[k].frame]]
           features == [k \in DOMAIN data |-> daily_metar_features(data[k].df)]
           raises == [k \in DOMAIN data |-> features[k].exc # ""]
           frames == Compress([k \in DOMAIN data |-> features[k].frame],
                              [k \in DOMAIN data |-> ~raises[k]])
           hashed == UNION {DOMAIN rs[k].h : k \in DOMAIN rs}
           h == [a \in hashed |-> rs[CHOOSE k \in DOMAIN rs : a \in DOMAIN rs[k].h].h[a]]
       IN  /\ metar_data' = data
           /\ metar_daily_frames' = frames
           /\ metar_daily' = Concat(frames)
           /\ warnings' = Compress(runArgs.airports, raises)
           /\ pyhash' = [pyhash EXCEPT ![1] = Remember(@, h)]
    /\ UNCHANGED <<runArgs, otp_raw, otp_synthetic, daily_frames, otp_daily>>
    /\ UNCHANGED <<tsa_daily, checks, written, runError>>
    /\ UNCHANGED notRun

\* The step "TSA pull".
RunThroughput(r) ==
    /\ Ready("TSA pull")
    /\ stage' = "TSA pull"
    /\ steps' = Append(steps, "TSA pull")
    /\ tsa_daily' = r.frame
    /\ UNCHANGED <<pyhash, runArgs, otp_raw, otp_synthetic, daily_frames, otp_daily,
                   metar_data, metar_daily_frames, metar_daily, warnings>>
    /\ UNCHANGED <<checks, written, runError>>
    /\ UNCHANGED notRun

\* The step "Validations": _run_validations(datasets, params).
RunValidations ==
    /\ Ready("Validations")
    /\ stage' = "Validations"
    /\ steps' = Append(steps, "Validations")
    /\ \E r \in {run_all_checks([RunDatasets EXCEPT !.metar_daily = WeatherRead(@)],
                                 runArgs.start, runArgs.end)} :
          IF r.exc = "" THEN checks' = r.frame /\ UNCHANGED runError
          ELSE runError' = r.exc /\ UNCHANGED checks
    /\ UNCHANGED <<pyhash, runArgs, otp_raw, otp_synthetic, daily_frames, otp_daily,
                   metar_data, metar_daily_frames, metar_daily, warnings>>
    /\ UNCHANGED <<tsa_daily, written>>
    /\ UNCHANGED notRun

\* The step "Write Parquet": _write_raw_outputs, then
\* _write_processed_outputs.
RunWrite ==
    /\ Ready("Write Parquet")
    /\ stage' = "Write Parquet"
    /\ steps' = Append(steps, "Write Parquet")
    /\ \E raw \in {_write_raw_outputs(otp_raw, metar_data, tsa_daily)} :
          IF raw.exc = ""
          THEN written' = raw.written \o _write_processed_outputs(RunDatasets) /\ UNCHANGED runError
          ELSE written' = raw.written /\ runError' = raw.exc
    /\ UNCHANGED <<pyhash, runArgs, otp_raw, otp_synthetic, daily_frames, otp_daily,
                   metar_data, metar_daily_frames, metar_daily, warnings>>
    /\ UNCHANGED <<tsa_daily, checks>>
    /\ UNCHANGED notRun

RunNext ==
    \/ /\ stage = "idle"
       /\ \E args \in IngestConfigs : \E r \in Returns(OtpCall(args), 1) : RunFlights(args, r)
    \/ /\ Ready("METAR pull")
       /\ \E rs \in MetarReturns(runArgs.airports, runArgs) : RunWeather(rs)
    \/ /\ Ready("TSA pull")
       /\ \E r \in Returns(TsaCall(runArgs), 1) : RunThroughput(r)
    \/ RunValidations
    \/ RunWrite

(***************************************************************************)
(* Claims about an ingest run                                              *)
(***************************************************************************)
\* Step a was started before step b.
StartedBefore(a, b) ==
    \E i, j \in DOMAIN steps : i < j /\ steps[i] = a /\ steps[j] = b

\* Everything the run has written.
Files == UNION Range(written)

\* The validations were started only after the three aggregates were
\* produced.
ValidatedAfterAggregates ==
    "Validations" \in Range(steps) =>
        \A s \in {"Daily movements", "METAR pull", "TSA pull"} : StartedBefore(s, "Validations")

\* Nothing is written before the validations have returned their results.
WrittenAfterValidated ==
    ("Write Parquet" \in Range(steps) \/ Files # {}) =>
        /\ StartedBefore("Validations", "Write Parquet")
        /\ Len(checks) > 0

\* The three snapshots and the manifest are written.
Persisted ==
    /\ \A n \in {"otp_daily.parquet", "wx_daily.parquet", "tsa_daily.parquet"} :
          \E f \in Files : f.kind = "snapshot" /\ f.path = <<n>>
    /\ \E f \in Files : f.kind = "manifest"

\* C19: in every run the validations are started only after the flight,
\* weather and throughput aggregates have been produced, nothing is
\* written before the validations have returned, and once they have
\* returned the write step leaves the snapshots and the manifest on disk
\* whatever the statuses of the results.
C19_ValidatedThenPersisted ==
    /\ ValidatedAfterAggregates
    /\ WrittenAfterValidated
    /\ "Write Parquet" \in Range(steps) => Persisted

\* The part of C19 on the order of the steps, and the one cause of a write
\* step that does not persist: a raw weather frame with rows and neither an
\* observation_time nor a time column.
C19_OrderOfSteps ==
    /\ ValidatedAfterAggregates
    /\ WrittenAfterValidated
    /\ ("Write Parquet" \in Range(steps) /\ ~Persisted) =>
          /\ runError = "AttributeError"
          /\ \E k \in DOMAIN metar_data :
                /\ ~IsEmpty(metar_data[k].df)
                /\ ~HasColumn(metar_data[k].df, "observation_time")
                /\ ~HasColumn(metar_data[k].df, "time")

\* A run that persisted with a failing result among its checks.
C19_PersistedWithFail ==
    /\ Persisted
    /\ \E k \in DOMAIN checks : checks[k].status = "fail"

(***************************************************************************)
(* The admin page across presses of its buttons: the session, the cache   *)
(* of the fetchers and the files                                           *)
(***************************************************************************)
MaxPresses == 2

\* The selections of the sidebar that are followed: no airport or one, and
\* two windows.
PageWindows == {<<1, 1>>, <<1, 2>>}

PageConfigs ==
    {[airports |-> l, start |-> w[1], end |-> w[2], include_canceled |-> FALSE] :
        l \in {<<>>, <<KJFK>>}, w \in PageWindows}

\* What a fetcher that runs can return to the page: its synthetic frame for
\* one value of hash(), or a frame of one row from the server (for the
\* weather: a row of the first day of the window, with a station_id).
PageReturns(call) ==
    {r \in Returns(call, 1) :
        IF r.synthetic THEN \A a \in DOMAIN r.h : r.h[a] = 7
        ELSE /\ Len(r.frame.rows) = 1
             /\ call.f = "metar" =>
                   /\ HasColumn(r.frame, "station_id")
                   /\ \A c \in {"observation_time", "valid", "time"} \cap Range(r.frame.columns) :
                         r.frame.rows[1][c] \div HoursPerDay = call.start}

\* A slip: no cache, every call runs the fetcher.
NeverCached(call) ==
    {[cached |-> FALSE, call |-> call, h |-> r.h, frame |-> r.frame] : r \in PageReturns(call)}

\* @st.cache_data: a call with arguments seen before returns the stored
\* frame and does not run the fetcher.
Cached(call) ==
    IF call \in DOMAIN cache_data
    THEN {[cached |-> TRUE, call |-> call, h |-> EmptyDict, frame |-> cache_data[call]]}
    ELSE {[cached |-> FALSE, call |-> call, h |-> r.h, frame |-> r.frame] :
             r \in PageReturns(call)}

RECURSIVE MetarCached(_, _)
MetarCached(airports, args) ==
    IF airports = <<>> THEN {<<>>}
    ELSE {<<r>> \o rest : r \in Cached(MetarCall(Head(airports), args)),
                          rest \in MetarCached(Tail(airports), args)}

\* A slip: the exception of the features of an airport leaves the run.
FeaturesErrorAborts(exc) == exc # ""

\* except Exception as exc: st.warning(...) around daily_metar_features:
\* no exception of the features of an airport leaves the loop.
FeaturesErrorLeaves(exc) == FALSE

\* The try block of a run from "Daily movements" to the call of
\* _write_raw_outputs, on the frames the fetches returned.
IngestOutcome(args, otp_df, metar_dfs, tsa_df) ==
    LET frames == [k \in DOMAIN args.airports |->
                      build_daily_movements(otp_df, args.airports[k], args.include_canceled)]
        data == [k \in DOMAIN args.airports |->
                    [airport |-> args.airports[k], df |-> metar_dfs[k]]]
        features == [k \in DOMAIN data |-> daily_metar_features(data[k].df)]
        raises == [k \in DOMAIN data |-> features[k].exc # ""]
        kept == Compress([k \in DOMAIN data |-> features[k].frame],
                         [k \in DOMAIN data |-> ~raises[k]])
        datasets == [otp |-> otp_df, otp_daily |-> Concat(frames),
                     metar_daily |-> Concat(kept), tsa_daily |-> tsa_df]
    IN  [datasets |-> datasets,
         metar_raw |-> data,
         warnings |-> Compress(args.airports, raises),
         validated |-> IF \E k \in DOMAIN features : FeaturesErrorLeaves(features[k].exc)
                       THEN Raise("ValueError")
                       ELSE run_all_checks([datasets EXCEPT !.metar_daily = WeatherRead(@)],
                                           args.start, args.end),
         raw |-> _write_raw_outputs(otp_df, data, tsa_df)]

\* The groups of files the step "Write Parquet" writes, in order, when no
\* write fails.
WriteGroups(out) ==
    IF out.validated.exc # "" THEN <<>>
    ELSE out.raw.written
         \o (IF out.raw.exc = "" THEN _write_processed_outputs(out.datasets) ELSE <<>>)

\* The number of the group whose write fails with an OSError: breaks, when
\* there is such a group.
BreakAt(groups, breaks) == IF breaks \in 1..Len(groups) THEN breaks ELSE Len(groups) + 1

\* The files after the groups are written, the write of group `breaks`
\* failing: the groups before it are whole, the snapshot or manifest of the
\* failing group is left torn (opened for writing, not completed).
Persist(files, groups, breaks) ==
    LET b == BreakAt(groups, breaks)
        whole == UNION {groups[i] : i \in 1..(b - 1)}
        torn == IF b <= Len(groups)
                THEN {f \in groups[b] : f.kind \in {"snapshot", "manifest"}} ELSE {}
        paths == {f.path : f \in whole \cup torn}
    IN  [p \in (DOMAIN files) \cup paths |->
            IF \E f \in torn : f.path = p THEN [kind |-> "torn", path |-> p]
            ELSE IF \E f \in whole : f.path = p THEN CHOOSE f \in whole : f.path = p
            ELSE files[p]]

\* The manifest _write_processed_outputs returns.
ManifestOf(groups) ==
    LET m == CHOOSE f \in UNION Range(groups) : f.kind = "manifest"
    IN  [rows |-> m.rows, hashes |-> m.hashes]

\* A slip: the run leaves the bundle of the session where it is.
SessionKeep(bundle) == bundle

\* st.session_state.pop("ingest_data", None) at the start of a run.
SessionPop(bundle) == NoBundle

\* The group of a run at which a write can fail (0: none fails): the raw
\* partitions of the flights, the first snapshot, the manifest.
RunBreaks == {0, 1, 4, 7}

SaveBreaks == {0, 1, 4}

\* "Run Ingest" with airports selected: the whole of the handler, the
\* fetches returning o, ms and t.  (A set of one element names a value that
\* is used several times.)
RunIngest(args, o, ms, t) ==
    /\ args.airports # <<>>
    /\ presses' = presses + 1
    /\ \E out \in {IngestOutcome(args, o.frame, [k \in DOMAIN ms |-> ms[k].frame], t.frame)} :
       \E groups \in {WriteGroups(out)} :
       \E breaks \in RunBreaks :
       LET returned == <<o, t>> \o ms
           ran == {k \in DOMAIN returned : ~returned[k].cached}
           hashed == UNION {DOMAIN returned[k].h : k \in ran}
           h == [a \in hashed |->
                    returned[CHOOSE k \in ran : a \in DOMAIN returned[k].h].h[a]]
           b == BreakAt(groups, breaks)
           error == IF out.validated.exc # "" THEN out.validated.exc
                    ELSE IF b <= Len(groups) THEN "OSError"
                    ELSE out.raw.exc
       IN  /\ fetched' = {returned[k].call : k \in ran}
           /\ cache_data' = [c \in (DOMAIN cache_data) \cup {returned[k].call : k \in ran} |->
                                IF c \in DOMAIN cache_data THEN cache_data[c]
                                ELSE returned[CHOOSE k \in ran : returned[k].call = c].frame]
           /\ pyhash' = [pyhash EXCEPT ![1] = Remember(@, h)]
           /\ disk' = Persist(disk, groups, breaks)
           /\ ingest_data' =
                 IF error # "" THEN SessionPop(ingest_data)
                 ELSE [held |-> TRUE, datasets |-> out.datasets, checks |-> out.validated.frame,
                       manifest |-> ManifestOf(groups), params |-> args,
                       metar_raw |-> out.metar_raw]
           /\ shown' = [button |-> "Run Ingest",
                        outcome |-> IF error = "" THEN "Ingest complete" ELSE "Ingest failed",
                        errors |-> IF error = "" THEN <<>> ELSE <<error>>,
                        warnings |-> out.warnings,
                        written |-> SubSeq(groups, 1, b - 1),
                        args |-> args]
    /\ UNCHANGED notPage

\* "Run Ingest" with no airport selected.
RunIngestNoAirports(args) ==
    /\ args.airports = <<>>
    /\ presses' = presses + 1
    /\ shown' = [NothingShown EXCEPT !.button = "Run Ingest", !.outcome = "Select an airport",
                                     !.args = args]
    /\ fetched' = {}
    /\ UNCHANGED <<ingest_data, cache_data, disk, pyhash>>
    /\ UNCHANGED notPage

\* "Re-run Validations".
RerunValidations ==
    /\ presses' = presses + 1
    /\ fetched' = {}
    /\ IF ~ingest_data.held
       THEN /\ shown' = [NothingShown EXCEPT !.button = "Re-run Validations"]
            /\ UNCHANGED ingest_data
       ELSE \E r \in {run_all_checks([ingest_data.datasets EXCEPT !.metar_daily = WeatherRead(@)],
                                     ingest_data.params.start, ingest_data.params.end)} :
               IF r.exc = ""
               THEN /\ ingest_data' = [ingest_data EXCEPT !.checks = r.frame]
                    /\ shown' = [NothingShown EXCEPT !.button = "Re-run Validations",
                                                     !.outcome = "Validation checks refreshed"]
               ELSE /\ shown' = [NothingShown EXCEPT !.button = "Re-run Validations",
                                                     !.errors = <<r.exc>>]
                    /\ UNCHANGED ingest_data
    /\ UNCHANGED <<cache_data, disk, pyhash>>
    /\ UNCHANGED notPage

\* "Save Outputs".
SaveOutputs ==
    /\ presses' = presses + 1
    /\ fetched' = {}
    /\ IF ~ingest_data.held
       THEN /\ shown' = [NothingShown EXCEPT !.button = "Save Outputs"]
            /\ UNCHANGED <<ingest_data, disk>>
       ELSE \E groups \in {_write_processed_outputs(ingest_data.datasets)} :
            \E breaks \in SaveBreaks :
            LET b == BreakAt(groups, breaks)
            IN  /\ disk' = Persist(disk, groups, breaks)
                /\ IF b <= Len(groups)
                   THEN /\ shown' = [NothingShown EXCEPT !.button = "Save Outputs",
                                                         !.errors = <<"OSError">>,
                                                         !.written = SubSeq(groups, 1, b - 1)]
                        /\ UNCHANGED ingest_data
                   ELSE /\ shown' = [NothingShown EXCEPT !.button = "Save Outputs",
                                                         !.outcome = "Outputs saved",
                                                         !.written = groups]
                        /\ ingest_data' = [ingest_data EXCEPT !.manifest = ManifestOf(groups)]
    /\ UNCHANGED <<cache_data, pyhash>>
    /\ UNCHANGED notPage

PageNext ==
    /\ presses < MaxPresses
    /\ \/ \E args \in PageConfigs :
             /\ args.airports # <<>>
             /\ \E o \in Cached(OtpCall(args)), ms \in MetarCached(args.airports, args),
                   t \in Cached(TsaCall(args)) :
                   RunIngest(args, o, ms, t)
       \/ \E args \in PageConfigs : RunIngestNoAirports(args)
       \/ RerunValidations
       \/ SaveOutputs

(***************************************************************************)
(* Claims about the admin page                                             *)
(***************************************************************************)
\* The last press wrote the whole of manifest.json.
ManifestWritten ==
    \E k \in DOMAIN shown.written : \E f \in shown.written[k] : f.kind = "manifest"

\* The file of the snapshot of a dataset.
SnapshotPath(key) ==
    CASE key = "otp_daily" -> <<"otp_daily.parquet">>
      [] key = "metar_daily" -> <<"wx_daily.parquet">>
      [] OTHER -> <<"tsa_daily.parquet">>

\* C21: after "Run Ingest" and after "Save Outputs", a manifest that was
\* written has for each of otp_daily, metar_daily and tsa_daily the row
\* count and the content hash ("" when empty) of the aggregate that the
\* same press wrote as the snapshot of the dataset, which is the aggregate
\* the session holds.
C21_ManifestMatchesSnapshots ==
    ManifestWritten =>
        /\ shown.button \in {"Run Ingest", "Save Outputs"}
        /\ ingest_data.held
        /\ \A key \in Range(DailyKeys) :
              LET m == disk[<<"manifest.json">>]
                  snap == disk[SnapshotPath(key)]
                  held == ingest_data.datasets[key]
              IN  /\ m.rows[key] = Len(snap.df.rows)
                  /\ m.rows[key] = Len(held.rows)
                  /\ \E f \in UNION Range(shown.written) : f.kind = "snapshot" /\ f.path = SnapshotPath(key)
                  /\ m.hashes[key] = _hash_dataframe(snap.df)
                  /\ m.hashes[key] = _hash_dataframe(held)
                  /\ IsEmpty(snap.df) => m.hashes[key] = EmptyStr
                  /\ ingest_data.manifest.rows[key] = m.rows[key]

\* "Save Outputs" wrote a manifest for a bundle with an empty weather
\* aggregate and flights and throughput of different sizes.
C21_Witness ==
    /\ ManifestWritten
    /\ shown.button = "Save Outputs"
    /\ disk[<<"manifest.json">>].hashes["metar_daily"] = EmptyStr
    /\ disk[<<"manifest.json">>].rows["otp_daily"] # disk[<<"manifest.json">>].rows["tsa_daily"]
    /\ disk[<<"manifest.json">>].rows["otp_daily"] > 0

\* "Run Ingest" wrote a manifest with three aggregates that have rows.
C21_WitnessRun ==
    /\ ManifestWritten
    /\ shown.button = "Run Ingest"
    /\ \A key \in Range(DailyKeys) : disk[<<"manifest.json">>].rows[key] > 0

\* The last press was a run with airports.
RanIngest == shown.button = "Run Ingest" /\ shown.outcome # "Select an airport"

\* The files the last press wrote whole.
WroteWhole == UNION Range(shown.written)

GroupsOf(gs, kind) ==
    {k \in DOMAIN gs : \E f \in gs[k] : f.kind = kind}

\* The snapshots written whole by the press.
SnapshotsWritten(gs) ==
    {f.path : f \in {g \in UNION Range(gs) : g.kind = "snapshot"}}

\* The manifest is written after the three snapshots and nothing after it,
\* and every raw partition before every snapshot.
WrittenInOrder ==
    /\ \A m \in GroupsOf(shown.written, "manifest") :
          /\ m = Len(shown.written)
          /\ Cardinality(SnapshotsWritten(SubSeq(shown.written, 1, m - 1))) = 3
    /\ \A r \in GroupsOf(shown.written, "raw"), s \in GroupsOf(shown.written, "snapshot") : r < s
    /\ (shown.button = "Run Ingest" /\ GroupsOf(shown.written, "snapshot") # {})
          => \A s \in GroupsOf(shown.written, "snapshot") : s > 3

\* manifest.json as a reader finds it in the files.
ManifestFile(files) ==
    IF <<"manifest.json">> \in DOMAIN files THEN <<files[<<"manifest.json">>]>> ELSE <<>>

\* The press failed while a raw partition or a snapshot was written.
FailedBeforeManifest(s) ==
    /\ s.errors # <<>>
    /\ s.button \in {"Run Ingest", "Save Outputs"}
    /\ Cardinality(SnapshotsWritten(s.written)) < 3

\* C28: within one save operation the manifest is the last file written:
\* manifest.json is written only after the three daily snapshots, and in
\* a run the raw partitions are written before any snapshot; so a failure
\* while a raw partition or a snapshot is written leaves the previous
\* manifest file untouched.
C28_ManifestLast ==
    /\ []WrittenInOrder
    /\ [][FailedBeforeManifest(shown') => ManifestFile(disk') = ManifestFile(disk)]_vars

\* A press failed at the first snapshot with the manifest of an earlier
\* press in the files.
C28_Witness ==
    /\ presses = 2
    /\ FailedBeforeManifest(shown)
    /\ \/ shown.button = "Save Outputs"
       \/ Len(shown.written) >= 3
    /\ ManifestFile(disk) # <<>>
    /\ ManifestFile(disk)[1].kind = "manifest"

\* A run wrote raw partitions, the snapshots and the manifest.
C28_WitnessWhole ==
    /\ shown.button = "Run Ingest"
    /\ GroupsOf(shown.written, "manifest") # {}
    /\ \E r \in GroupsOf(shown.written, "raw") : TRUE

\* The button of the step and what it was pressed with.
RunWithAirports(s) == s.button = "Run Ingest" /\ s.args.airports # <<>>

RunWithoutAirports(s) == s.button = "Run Ingest" /\ s.args.airports = <<>>

\* C30: after any sequence of presses the session holds a bundle only if
\* the most recent "Run Ingest" with an airport succeeded (a run stores a
\* bundle exactly when it succeeds, and no other press creates or drops
\* one); "Re-run Validations" and "Save Outputs" do nothing when no bundle
\* is held; "Re-run Validations" replaces only the checks and leaves the
\* datasets, params, manifest and all files unchanged; "Run Ingest" with no
\* airport changes neither the session nor any file.
C30_PageFrame ==
    [][/\ RunWithAirports(shown') =>
           /\ (ingest_data'.held <=> shown'.outcome = "Ingest complete")
           /\ (ingest_data'.held \/ ingest_data' = NoBundle)
       /\ ~RunWithAirports(shown') => ingest_data'.held = ingest_data.held
       /\ (shown'.button \in {"Re-run Validations", "Save Outputs"} /\ ~ingest_data.held) =>
              /\ ingest_data' = ingest_data
              /\ disk' = disk
              /\ cache_data' = cache_data
       /\ shown'.button = "Re-run Validations" =>
              /\ ingest_data' = [ingest_data EXCEPT !.checks = ingest_data'.checks]
              /\ disk' = disk
              /\ cache_data' = cache_data
       /\ RunWithoutAirports(shown') =>
              /\ ingest_data' = ingest_data
              /\ disk' = disk
              /\ cache_data' = cache_data]_vars

\* A run stored a bundle and the next run failed: the manifest of the
\* first is in the files and the session holds nothing.
C30_Witness ==
    /\ presses = 2
    /\ RunWithAirports(shown)
    /\ shown.outcome = "Ingest failed"
    /\ ~ingest_data.held
    /\ ManifestFile(disk) # <<>>

\* "Re-run Validations" with a bundle held.
C30_WitnessRerun ==
    /\ presses = 2
    /\ shown.button = "Re-run Validations"
    /\ shown.outcome = "Validation checks refreshed"
    /\ ingest_data.held

\* "Save Outputs" with no bundle held, after a run that failed.
C30_WitnessNoBundle ==
    /\ presses = 2
    /\ shown.button = "Save Outputs"
    /\ ~ingest_data.held
    /\ DOMAIN disk # {}

(***************************************************************************)
(* write_manifest and a reader of manifest.json                            *)
(***************************************************************************)
MaxManifestRows == 3

\* The text json.dump(payload, fh, indent=2, sort_keys=True) writes for a
\* manifest whose datasets have n rows each, in the pieces it passes to
\* fh.write: the braces and one piece for each key, in sorted order.
ManifestText(n) ==
    << <<"{", 0>>, <<"hashes", n>>, <<"params", 0>>, <<"rows", n>>,
       <<"run_timestamp", 0>>, <<"}", 0>> >>

\* target.open("w", encoding="utf-8"): the file is created or cut to
\* nothing.
ManifestOpen(n) ==
    /\ mpc \in {"idle", "closed", "failed"}
    /\ mpc' = "open"
    /\ mpayload' = ManifestText(n)
    /\ mfile' = [exists |-> TRUE, text |-> <<>>]
    /\ UNCHANGED mseen
    /\ UNCHANGED notManifest

\* The next piece of the text reaches the file.
ManifestWrite ==
    /\ mpc = "open"
    /\ Len(mfile.text) < Len(mpayload)
    /\ mfile' = [mfile EXCEPT !.text = Append(@, mpayload[Len(@) + 1])]
    /\ UNCHANGED <<mpc, mpayload, mseen>>
    /\ UNCHANGED notManifest

\* The end of the with block after the last piece.
ManifestClose ==
    /\ mpc = "open"
    /\ Len(mfile.text) = Len(mpayload)
    /\ mpc' = "closed"
    /\ UNCHANGED <<mpayload, mfile, mseen>>
    /\ UNCHANGED notManifest

\* A write raises OSError (or the process ends) before the last piece: the
\* with block closes the file as it is.
ManifestFail ==
    /\ mpc = "open"
    /\ Len(mfile.text) < Len(mpayload)
    /\ mpc' = "failed"
    /\ UNCHANGED <<mpayload, mfile, mseen>>
    /\ UNCHANGED notManifest

\* Another process reads manifest.json.
ManifestRead ==
    /\ mseen' = [read |-> TRUE, exists |-> mfile.exists, text |-> mfile.text]
    /\ UNCHANGED <<mpc, mpayload, mfile>>
    /\ UNCHANGED notManifest

ManifestNext ==
    \/ \E n \in 0..MaxManifestRows : ManifestOpen(n)
    \/ ManifestWrite
    \/ ManifestClose
    \/ ManifestFail
    \/ ManifestRead

(***************************************************************************)
(* Claims about the manifest file                                          *)
(***************************************************************************)
\* The text is that of a whole manifest.
WholeManifest(text) == \E n \in 0..MaxManifestRows : text = ManifestText(n)

\* C23: a reader of manifest.json finds no file or a whole manifest, never
\* an empty, cut or partly written one, during a write and after a write
\* that failed.
C23_ReaderSeesWholeManifest ==
    (mseen.read /\ mseen.exists) => WholeManifest(mseen.text)

\* The fetcher calls of a run with the arguments args.
CallsOf(args) ==
    {OtpCall(args), TsaCall(args)}
    \cup {MetarCall(args.airports[k], args) : k \in DOMAIN args.airports}

\* C24 as stated: every run with airports runs the three fetchers again.
C24_EveryRunFetches ==
    RanIngest => fetched = CallsOf(shown.args)

\* C24 as the code has it: a run runs a fetcher only for the calls that no
\* earlier run of the process made with the same arguments; for the others
\* it takes the raw frame that the earlier run obtained, which the cache
\* keeps from run to run.
C24_RunFetchesOnlyNewCalls ==
    [][(presses' = presses + 1 /\ shown'.button = "Run Ingest"
        /\ shown'.outcome # "Select an airport") =>
          LET calls == CallsOf(shown'.args)
          IN  /\ fetched' = calls \ DOMAIN cache_data
              /\ DOMAIN cache_data' = (DOMAIN cache_data) \cup calls
              /\ \A c \in DOMAIN cache_data : cache_data'[c] = cache_data[c]
              /\ ingest_data'.held =>
                    /\ ingest_data'.datasets.otp = cache_data'[OtpCall(shown'.args)]
                    /\ ingest_data'.datasets.tsa_daily = cache_data'[TsaCall(shown'.args)]
                    /\ \A k \in DOMAIN ingest_data'.metar_raw :
                          ingest_data'.metar_raw[k].df
                              = cache_data'[MetarCall(shown'.args.airports[k], shown'.args)]]_vars

\* A second run with the arguments of the first: no fetcher ran, and the
\* run completed on the raw frames of the first.
C24_Witness ==
    /\ RanIngest
    /\ presses = 2
    /\ fetched = {}
    /\ ingest_data.held
    /\ CallsOf(shown.args) = DOMAIN cache_data

(***************************************************************************)
(* DateWindow: window_from_days_back and the window of the page            *)
(***************************************************************************)
MaxToday == 8

MaxDaysBack == 4

\* window_from_days_back(days, tz_name) on the day `today` of the zone.
window_from_days_back(days, today) ==
    LET end_dt == today
        start_dt == end_dt - (days - 1)
    IN  [start |-> start_dt, end |-> end_dt]

\* What st.date_input returns for a range: the two dates picked, in order,
\* or the only date picked so far.
DateSelections ==
    {x \in (0..MaxToday) \X (0..MaxToday) : x[1] <= x[2]}
        \cup {<<s>> : s \in 0..MaxToday}

\* window_from_days_back(days, tz) is called.
WindowFromDaysBack(days, today) ==
    /\ wcall' = [f |-> "window_from_days_back", days |-> days, today |-> today,
                 selection |-> <<>>]
    /\ window' = window_from_days_back(days, today)
    /\ UNCHANGED notWindow

\* render: start_date, end_date = date_selection, then
\* DateWindow(start=start_date, end=end_date); a selection of one date
\* does not unpack and no window is made.
PageWindow(selection) ==
    /\ IF Len(selection) = 2
       THEN /\ wcall' = [f |-> "render", days |-> 0, today |-> 0, selection |-> selection]
            /\ window' = [start |-> selection[1], end |-> selection[2]]
       ELSE /\ wcall' = [f |-> "", days |-> 0, today |-> 0, selection |-> selection]
            /\ window' = [start |-> 0, end |-> 0]
    /\ UNCHANGED notWindow

WindowNext ==
    \/ \E days \in (0 - MaxDaysBack)..MaxDaysBack, today \in 0..MaxToday :
          WindowFromDaysBack(days, today)
    \/ \E selection \in DateSelections : PageWindow(selection)

(***************************************************************************)
(* Claims about DateWindow                                                 *)
(***************************************************************************)
\* C25: every DateWindow that is constructed has start <= end: the one
\* window_from_days_back returns, for every integer days, and the one of a
\* run.
C25_WindowOrdered == wcall.f # "" => window.start <= window.end

(***************************************************************************)
(* One call of _icao_to_iata                                               *)
(***************************************************************************)
MaxCodeLen == 4

CodeLetters == {"K", "A", "J"}

\* _icao_to_iata(airport) is called, and then called on what it returned.
IcaoToIata(airport) ==
    /\ icode' = airport
    /\ iresult' = <<_icao_to_iata(airport), _icao_to_iata(_icao_to_iata(airport))>>
    /\ UNCHANGED notCode

CodeNext == \E airport \in SeqsUpTo(CodeLetters, MaxCodeLen) : IcaoToIata(airport)

\* C26: _icao_to_iata returns the code without its first character when the
\* code has exactly 4 characters and starts with "K", returns every other
\* code unchanged, and applying it twice gives what applying it once gives.
C26_IcaoToIata ==
    iresult # <<>> =>
        /\ (Len(icode) = 4 /\ icode[1] = "K") => iresult[1] = Tail(icode)
        /\ ~(Len(icode) = 4 /\ icode[1] = "K") => iresult[1] = icode
        /\ iresult[2] = iresult[1]

\* A four-letter code with two leading "K" has been converted.
C26_Witness ==
    /\ iresult # <<>>
    /\ Len(icode) = 4
    /\ icode[1] = "K"
    /\ icode[2] = "K"
    /\ Len(iresult[1]) = 3

(***************************************************************************)
(* Claims about the synthetic weather of a run                             *)
(***************************************************************************)
\* The k-th airport of the run got the frame of the synthetic generator.
SyntheticWeather(k) ==
    /\ metar_data[k].airport \in DOMAIN pyhash[1]
    /\ metar_data[k].df =
          _synthetic_metar(metar_data[k].airport, runArgs.start, runArgs.end, pyhash[1])

\* The hours of the day d that have a record in the frame, and the number
\* of records of that day.
HoursObserved(df, d) ==
    {df.rows[i].observation_time % HoursPerDay :
        i \in {j \in DOMAIN df.rows : df.rows[j].observation_time \div HoursPerDay = d}}

RecordsOfDay(df, d) ==
    Cardinality({j \in DOMAIN df.rows : df.rows[j].observation_time \div HoursPerDay = d})

\* The weather features have one row for the airport and the day d, and it
\* aggregates n observations.
FeaturesAggregate(airport, d, n) ==
    /\ Cardinality({i \in DOMAIN metar_daily.rows :
                       /\ metar_daily.rows[i].date = d
                       /\ metar_daily.rows[i].airport = airport}) = 1
    /\ \A i \in DOMAIN metar_daily.rows :
          (metar_daily.rows[i].date = d /\ metar_daily.rows[i].airport = airport)
              => metar_daily.rows[i].wind_mean.den = n

\* C27: for every window with start <= end the synthetic weather generator
\* emits exactly one record for each hour of each day from start through
\* the day after end, the trailing day in full, so the daily weather
\* features have a row for each of those days and each row aggregates 24
\* observations.
C27_OneRecordPerHour ==
    stage = "METAR pull" =>
        \A k \in DOMAIN metar_data :
            SyntheticWeather(k) =>
                \A d \in runArgs.start..(runArgs.end + 1) :
                    /\ HoursObserved(metar_data[k].df, d) = 0..(HoursPerDay - 1)
                    /\ RecordsOfDay(metar_data[k].df, d) = HoursPerDay
                    /\ FeaturesAggregate(metar_data[k].airport, d, HoursPerDay)

\* What the generator does emit: every hour of the days start..end once,
\* and of the day after end the hour 0 alone, which makes a features row
\* of one observation.
C27_TrailingMidnightOnly ==
    stage = "METAR pull" =>
        \A k \in DOMAIN metar_data :
            SyntheticWeather(k) =>
                /\ \A d \in runArgs.start..runArgs.end :
                      /\ HoursObserved(metar_data[k].df, d) = 0..(HoursPerDay - 1)
                      /\ RecordsOfDay(metar_data[k].df, d) = HoursPerDay
                      /\ FeaturesAggregate(metar_data[k].airport, d, HoursPerDay)
                /\ HoursObserved(metar_data[k].df, runArgs.end + 1) = {0}
                /\ RecordsOfDay(metar_data[k].df, runArgs.end + 1) = 1
                /\ FeaturesAggregate(metar_data[k].airport, runArgs.end + 1, 1)

C27_SyntheticRun ==
    /\ stage = "METAR pull"
    /\ \E k \in DOMAIN metar_data : SyntheticWeather(k)

(***************************************************************************)
(* Claims about the attempts of a fetcher                                  *)
(***************************************************************************)
\* The attempts the retry decorator of the fetcher's download allows.
AttemptLimit ==
    CASE fcall.f = "metar" -> StopAfterAttempt
      [] fcall.f = "otp" -> OtpStopAfterAttempt
      [] fcall.f = "tsa" -> TsaStopAfterAttempt
      [] OTHER -> 0

\* C29: every fetcher call ends after a bounded number of network
\* attempts: fetch_metar makes at most 5 GET attempts, fetch_otp at most 3
\* download attempts, fetch_tsa at most 3 GET attempts; once they are used
\* up the synthetic generator gives the result, and the fetcher that has
\* returned makes no further attempt.
C29_BoundedAttempts ==
    /\ [](/\ fAttempts <= AttemptLimit
          /\ fpc = "download" => fAttempts < AttemptLimit
          /\ (fpc = "done" /\ fPrimary.exc = "RetryError") =>
                /\ fAttempts = AttemptLimit
                /\ Hashed(fcall) \subseteq DOMAIN pyhash[1]
                /\ fResult = Synthetic(fcall, pyhash[1])
                /\ fRaised = "")
    /\ [][/\ fAttempts' \in {fAttempts, fAttempts + 1}
          /\ fpc # "done"]_vars

\* fetch_tsa got no answer three times and returned the synthetic frame.
C29_Witness ==
    /\ fpc = "done"
    /\ fcall.f = "tsa"
    /\ fAttempts = TsaStopAfterAttempt
    /\ fPrimary.exc = "RetryError"
    /\ fResult = Synthetic(fcall, pyhash[1])

\* fetch_metar used its five attempts.
C29_WitnessMetar ==
    /\ fpc = "done"
    /\ fcall.f = "metar"
    /\ fAttempts = StopAfterAttempt
    /\ fPrimary.exc = "RetryError"

(***************************************************************************)
(* Specifications                                                          *)
(***************************************************************************)
InitHttp == HttpInit /\ ProcInit /\ FetchIdle /\ SynthIdle /\ StageIdle /\ CheckIdle /\ LaterIdle

SpecHttp == InitHttp /\ [][HttpNext]_vars

InitFetch == HttpIdle /\ ProcInit /\ FetchIdle /\ SynthIdle /\ StageIdle /\ CheckIdle /\ LaterIdle

SpecFetch == InitFetch /\ [][FetchNext]_vars

InitSynth == HttpIdle /\ ProcInit /\ FetchIdle /\ SynthIdle /\ StageIdle /\ CheckIdle /\ LaterIdle

SpecSynth == InitSynth /\ [][SynthNext]_vars

InitStage == HttpIdle /\ ProcInit /\ FetchIdle /\ SynthIdle /\ StageIdle /\ CheckIdle /\ LaterIdle

SpecFlights == InitStage /\ [][FlightsNext]_vars

SpecWeather == InitStage /\ [][WeatherNext]_vars

InitChecks == HttpIdle /\ ProcInit /\ FetchIdle /\ SynthIdle /\ StageIdle /\ CheckIdle /\ LaterIdle

SpecChecks == InitChecks /\ [][ChecksNext]_vars

InitTransform == HttpIdle /\ ProcInit /\ FetchIdle /\ SynthIdle /\ StageIdle /\ CheckIdle /\ LaterIdle

SpecTransform == InitTransform /\ [][TransformNext]_vars

InitNulls == HttpIdle /\ ProcInit /\ FetchIdle /\ SynthIdle /\ StageIdle /\ CheckIdle /\ LaterIdle

SpecNulls == InitNulls /\ [][NullsNext]_vars

InitRanges == HttpIdle /\ ProcInit /\ FetchIdle /\ SynthIdle /\ StageIdle /\ CheckIdle /\ LaterIdle

SpecRanges == InitRanges /\ [][RangesNext]_vars

InitCoverage == HttpIdle /\ ProcInit /\ FetchIdle /\ SynthIdle /\ StageIdle /\ CheckIdle /\ LaterIdle

SpecCoverage == InitCoverage /\ [][CoverageNext]_vars

InitEngine == HttpIdle /\ ProcInit /\ FetchIdle /\ SynthIdle /\ StageIdle /\ CheckIdle /\ LaterIdle

SpecEngine == InitEngine /\ [][EngineNext]_vars

InitHash == HttpIdle /\ ProcInit /\ FetchIdle /\ SynthIdle /\ StageIdle /\ CheckIdle /\ LaterIdle

SpecHash == InitHash /\ [][HashNext]_vars

InitRun == HttpIdle /\ ProcInit /\ FetchIdle /\ SynthIdle /\ StageIdle /\ CheckIdle /\ LaterIdle

SpecRun == InitRun /\ [][RunNext]_vars

InitPage == HttpIdle /\ ProcInit /\ FetchIdle /\ SynthIdle /\ StageIdle /\ CheckIdle /\ LaterIdle

SpecPage == InitPage /\ [][PageNext]_vars

InitManifest == HttpIdle /\ ProcInit /\ FetchIdle /\ SynthIdle /\ StageIdle /\ CheckIdle /\ LaterIdle

SpecManifest == InitManifest /\ [][ManifestNext]_vars

InitWindow == HttpIdle /\ ProcInit /\ FetchIdle /\ SynthIdle /\ StageIdle /\ CheckIdle /\ LaterIdle

SpecWindow == InitWindow /\ [][WindowNext]_vars

InitCode == HttpIdle /\ ProcInit /\ FetchIdle /\ SynthIdle /\ StageIdle /\ CheckIdle /\ LaterIdle

SpecCode == InitCode /\ [][CodeNext]_vars

====
